---------------------------- MODULE Spec2Model ----------------------------
(***************************************************************************)
(* A model of airtrafik/jscal: the ISO 8601 duration codec, the schema     *)
(* validators of Event, Task and Group with the helpers that mutate them,  *)
(* LocalDateTime, and the iCalendar bridge (convert/ical).                 *)
(*                                                                         *)
(* Text is a sequence of one-character strings, so that the code's         *)
(* strings.Index / HasPrefix / Split / ReplaceAll and fmt.Sscanf are       *)
(* computed character by character.  A time.Duration is an integer number  *)
(* of ticks of 100 ms (Second = 10); the literals the model parses carry   *)
(* no fraction other than ".5", which float64 holds exactly, so that the   *)
(* code's float64 products are the exact products computed here.           *)
(***************************************************************************)
EXTENDS Integers, Sequences, FiniteSets, TLC

VARIABLES
    lit,      \* duration codec: the literal handed to parseISO8601Duration
    shape,    \* duration codec: the components lit was written from, or NoShape
    dpc,      \* duration codec: "input", "parsed", "formatted", "reparsed"
    dval,     \* duration codec: the time.Duration parseISO8601Duration returned
    derr,     \* duration codec: whether it returned an error
    dout,     \* duration codec: the literal formatISO8601Duration produced
    dre,      \* duration codec: the time.Duration parsed from dout
    event,    \* validator: the *Event under construction (Nil or Ptr of a record)
    vpc,      \* validator: "built" or "validated"
    vres,     \* validator: what Event.Validate returned
    edits,    \* validator: assignments and Add calls made so far
    jsevent,  \* bridge: the *Event handed to Converter.Format
    bpc,      \* bridge: "built", "exported" or "imported"
    exported, \* bridge: what the export did: a component, or a panic
    back,     \* bridge: the *Event that Converter.Parse returned for it
    berr,     \* bridge: whether Converter.Parse returned an error
    cal,      \* bulk import: the components of the calendar given to ParseAll
    calBad,   \* bulk import: whether the library fails to parse the data
    ppc,      \* bulk import: "input" or "parsed"
    pres,     \* bulk import: what ParseAll returned
    lastNow,  \* the last reading of time.Now(), in seconds
    task,     \* task: the *Task under construction (Nil or Ptr of a record)
    tpc,      \* task: "built" or "validated"
    tres,     \* task: what Task.Validate returned
    tedits,   \* task: assignments and helper calls made so far
    group,    \* group: the *Group under construction (Nil or Ptr of a record)
    gpc,      \* group: "built" or "validated"
    gres,     \* group: what Group.Validate and the last AddEntry/RemoveEntry returned
    gedits,   \* group: assignments and helper calls made so far
    la,       \* LocalDateTime: the receiver, a *LocalDateTime
    lb,       \* LocalDateTime: the argument of Equal, Before and After
    lpc,      \* LocalDateTime: "input", "compared", "printed" or "parsed"
    lres,     \* LocalDateTime: what the last method called returned
    tok,      \* by-day tokens: the token handed to ParseNDay
    npc,      \* by-day tokens: "input" or "parsed"
    nres,     \* by-day tokens: what ParseNDay returned
    icomp,    \* import: the component handed to convertICalEventToJSCal
    ipc,      \* import: "input" or "imported"
    ires      \* import: the event and the error it returned

durVars == <<lit, shape, dpc, dval, derr, dout, dre>>
valVars == <<event, vpc, vres, edits>>
brVars == <<jsevent, bpc, exported, back, berr>>
paVars == <<cal, calBad, ppc, pres>>
taskVars == <<task, tpc, tres, tedits>>
groupVars == <<group, gpc, gres, gedits>>
ldtVars == <<la, lb, lpc, lres>>
ndayVars == <<tok, npc, nres>>
impVars == <<icomp, ipc, ires>>
vars == <<durVars, valVars, brVars, paVars, lastNow, taskVars, groupVars, ldtVars,
          ndayVars, impVars>>

\* what each machine leaves alone: the variables of the others
\* (the machines of Event, Task and Group read the clock, and say what
\* becomes of it themselves)
notDur == <<valVars, brVars, paVars, lastNow, taskVars, groupVars, ldtVars, ndayVars, impVars>>
notVal == <<durVars, brVars, paVars, taskVars, groupVars, ldtVars, ndayVars, impVars>>
notBr == <<durVars, valVars, paVars, lastNow, taskVars, groupVars, ldtVars, ndayVars, impVars>>
notPa == <<durVars, valVars, brVars, lastNow, taskVars, groupVars, ldtVars, ndayVars, impVars>>
notTask == <<durVars, valVars, brVars, paVars, groupVars, ldtVars, ndayVars, impVars>>
notGroup == <<durVars, valVars, brVars, paVars, taskVars, ldtVars, ndayVars, impVars>>
notLdt == <<durVars, valVars, brVars, paVars, lastNow, taskVars, groupVars, ndayVars, impVars>>
notNDay == <<durVars, valVars, brVars, paVars, lastNow, taskVars, groupVars, ldtVars, impVars>>
notImp == <<durVars, valVars, brVars, paVars, lastNow, taskVars, groupVars, ldtVars, ndayVars>>

(***************************************************************************)
(* Bounds of the model.                                                    *)
(***************************************************************************)
MaxUnits == 2        \* components present in a generated duration literal
MaxComponent == 2    \* largest whole number written in a component
MaxLitLen == 4       \* length of the arbitrary (possibly malformed) literals
MaxEdits == 2        \* assignments and Add calls made on an event before Validate
MaxDescLen == 2      \* length of the descriptions sent through the bridge
MaxCategories == 2   \* categories of an event sent through the bridge
MaxComponents == 3   \* event components of a calendar given to ParseAll
MaxTokenLen == 4     \* characters of a by-day token

(***************************************************************************)
(* Characters and strings.                                                 *)
(***************************************************************************)
Digits == {"0", "1", "2", "3", "4", "5", "6", "7", "8", "9"}

DigitVal(c) ==
    CASE c = "0" -> 0 [] c = "1" -> 1 [] c = "2" -> 2 [] c = "3" -> 3
      [] c = "4" -> 4 [] c = "5" -> 5 [] c = "6" -> 6 [] c = "7" -> 7
      [] c = "8" -> 8 [] c = "9" -> 9

DigitChar(n) ==
    CASE n = 0 -> "0" [] n = 1 -> "1" [] n = 2 -> "2" [] n = 3 -> "3"
      [] n = 4 -> "4" [] n = 5 -> "5" [] n = 6 -> "6" [] n = 7 -> "7"
      [] n = 8 -> "8" [] n = 9 -> "9"

\* fmt.Sprintf("%d", n) for n >= 0
RECURSIVE IntToDigits(_)
IntToDigits(n) ==
    IF n < 10 THEN <<DigitChar(n)>>
    ELSE Append(IntToDigits(n \div 10), DigitChar(n % 10))

\* strings.HasPrefix(s, c) for a one-character prefix
HasPrefix(s, c) == Len(s) > 0 /\ s[1] = c

\* strings.Index(s, c) for a one-character needle: the 1-based position of
\* its first occurrence, 0 when there is none (Go: 0-based, -1)
Index(s, c) ==
    IF \E i \in 1..Len(s) : s[i] = c
    THEN CHOOSE i \in 1..Len(s) : s[i] = c /\ \A j \in 1..(i - 1) : s[j] # c
    ELSE 0

\* s[:i-1] and s[i+1:] around the 1-based position i
Before(s, i) == SubSeq(s, 1, i - 1)
After(s, i) == SubSeq(s, i + 1, Len(s))

\* Go's conversion of a float to an integer, and int(x / y): toward zero
TruncDiv(a, b) == IF a >= 0 THEN a \div b ELSE -((-a) \div b)

(***************************************************************************)
(* time.Duration units, in ticks of 100 ms.                                *)
(***************************************************************************)
Second == 10
Minute == 60 * Second
Hour == 60 * Minute
Day == 24 * Hour

(***************************************************************************)
(* fmt.Sscanf(s, "%f", &x) and fmt.Sscanf(s, "%d", &i).                    *)
(***************************************************************************)
\* the length of the longest prefix of s made of characters of set cs
RECURSIVE Span(_, _)
Span(s, cs) ==
    IF s = <<>> \/ s[1] \notin cs THEN 0 ELSE 1 + Span(Tail(s), cs)

RECURSIVE DigitsValue(_)
DigitsValue(s) ==
    IF s = <<>> THEN 0 ELSE DigitsValue(Before(s, Len(s))) * 10 + DigitVal(s[Len(s)])

RECURSIVE Pow10(_)
Pow10(n) == IF n = 0 THEN 1 ELSE 10 * Pow10(n - 1)

\* The float token of fmt's scanner: an optional sign, digits, an optional
\* period and digits (the exponent, hexadecimal, Inf and NaN forms need
\* characters the model's alphabets do not hold).  Input left over after the
\* token is no error.  ok is n == 1 && err == nil; the value is
\* neg * num / den.
ScanFloat(s) ==
    LET signed == Len(s) > 0 /\ s[1] \in {"+", "-"}
        body == IF signed THEN Tail(s) ELSE s
        nInt == Span(body, Digits)
        rest == SubSeq(body, nInt + 1, Len(body))
        dot == HasPrefix(rest, ".")
        nFrac == IF dot THEN Span(Tail(rest), Digits) ELSE 0
        whole == DigitsValue(SubSeq(body, 1, nInt))
        frac == IF dot THEN DigitsValue(SubSeq(rest, 2, 1 + nFrac)) ELSE 0
    IN  [ok |-> nInt + nFrac > 0,
         neg |-> signed /\ s[1] = "-",
         num |-> whole * Pow10(nFrac) + frac,
         den |-> Pow10(nFrac)]

\* time.Duration(x * float64(unit)) for the scanned x
FloatTimes(f, unit) ==
    LET whole == f.num \div f.den
        frac == f.num % f.den
        mag == whole * unit + frac * (unit \div f.den)
               + (frac * (unit % f.den)) \div f.den
    IN  IF f.neg THEN -mag ELSE mag

\* parseInt of convert/ical: fmt.Sscanf(s, "%d", &i), i left 0 on an error
parseInt(s) ==
    LET signed == Len(s) > 0 /\ s[1] \in {"+", "-"}
        body == IF signed THEN Tail(s) ELSE s
        n == Span(body, Digits)
        v == DigitsValue(SubSeq(body, 1, n))
    IN  IF n = 0 THEN 0 ELSE IF signed /\ s[1] = "-" THEN -v ELSE v

(***************************************************************************)
(* parseISO8601Duration of package jscal (duration.go).                    *)
(***************************************************************************)
\* One "if idx := strings.Index(remaining, unit); idx >= 0 { ... }" block:
\* what it adds to result and what it leaves in remaining.
ScanUnit(remaining, letter, unit) ==
    LET idx == Index(remaining, letter)
        f == ScanFloat(Before(remaining, idx))
    IN  IF idx = 0 THEN [add |-> 0, rest |-> remaining]
        ELSE [add |-> IF f.ok THEN FloatTimes(f, unit) ELSE 0,
              rest |-> After(remaining, idx)]

DatePartValue(datePart) ==
    LET y == ScanUnit(datePart, "Y", 365 * Day)
        m == ScanUnit(y.rest, "M", 30 * Day)
        w == ScanUnit(m.rest, "W", 7 * Day)
        d == ScanUnit(w.rest, "D", Day)
    IN  y.add + m.add + w.add + d.add

TimePartValue(timePart) ==
    LET h == ScanUnit(timePart, "H", Hour)
        m == ScanUnit(h.rest, "M", Minute)
        s == ScanUnit(m.rest, "S", Second)
    IN  h.add + m.add + s.add

DurOk(d) == [err |-> FALSE, d |-> d]
DurErr == [err |-> TRUE, d |-> 0]

\* parseISO8601Duration with the sign applied to the date part alone
parseISO8601Duration_signOnDate(duration) ==
    IF duration = <<>> THEN DurErr
    ELSE
    LET negative == HasPrefix(duration, "-")
        d1 == IF negative THEN Tail(duration) ELSE duration
    IN  IF ~HasPrefix(d1, "P") THEN DurErr
        ELSE
        LET d2 == Tail(d1)
            timeIndex == Index(d2, "T")
            datePart == IF timeIndex > 0 THEN Before(d2, timeIndex) ELSE d2
            timePart == IF timeIndex > 0 THEN After(d2, timeIndex) ELSE <<>>
            date == IF datePart # <<>> THEN DatePartValue(datePart) ELSE 0
            time == IF timePart # <<>> THEN TimePartValue(timePart) ELSE 0
        IN  IF d2 = <<>> THEN DurOk(0)
            ELSE DurOk((IF negative THEN -date ELSE date) + time)

parseISO8601Duration(duration) ==
    IF duration = <<>> THEN DurErr
    ELSE
    LET negative == HasPrefix(duration, "-")
        d1 == IF negative THEN Tail(duration) ELSE duration
    IN  IF ~HasPrefix(d1, "P") THEN DurErr
        ELSE
        LET d2 == Tail(d1)
            timeIndex == Index(d2, "T")
            datePart == IF timeIndex > 0 THEN Before(d2, timeIndex) ELSE d2
            timePart == IF timeIndex > 0 THEN After(d2, timeIndex) ELSE <<>>
            result == (IF datePart # <<>> THEN DatePartValue(datePart) ELSE 0)
                      + (IF timePart # <<>> THEN TimePartValue(timePart) ELSE 0)
        IN  IF d2 = <<>> THEN DurOk(0)
            ELSE DurOk(IF negative THEN -result ELSE result)

(***************************************************************************)
(* formatISO8601Duration of package ical (convert/ical/converter.go).      *)
(***************************************************************************)
\* fmt.Sprintf("%.0f", seconds) for seconds = d / Second > 0: rounded to the
\* nearest whole number, a half to the even one
RoundHalfEven(d) ==
    LET whole == d \div Second
        frac == d % Second
    IN  IF 2 * frac < Second THEN whole
        ELSE IF 2 * frac > Second THEN whole + 1
        ELSE IF whole % 2 = 0 THEN whole ELSE whole + 1

formatISO8601Duration(d) ==
    IF d = 0 THEN <<"P", "T", "0", "S">>
    ELSE
    LET days == TruncDiv(d, Day)
        r0 == IF days > 0 THEN <<"P">> \o IntToDigits(days) \o <<"D">> ELSE <<"P">>
        d1 == IF days > 0 THEN d - days * Day ELSE d
        hours == TruncDiv(d1, Hour)
        r1 == IF hours > 0 THEN IntToDigits(hours) \o <<"H">> ELSE <<>>
        d2 == IF hours > 0 THEN d1 - hours * Hour ELSE d1
        minutes == TruncDiv(d2, Minute)
        r2 == IF minutes > 0 THEN IntToDigits(minutes) \o <<"M">> ELSE <<>>
        d3 == IF minutes > 0 THEN d2 - minutes * Minute ELSE d2
        r3 == IF d3 > 0 THEN IntToDigits(RoundHalfEven(d3)) \o <<"S">> ELSE <<>>
    IN  IF d1 > 0 THEN r0 \o <<"T">> \o r1 \o r2 \o r3 ELSE r0

(***************************************************************************)
(* durationPattern of the validator (validate.go):                         *)
(*   ^-?P(n Y)?(n M)?(n W)?(n D)?(T(n H)?(n M)?(n S)?)?$,  n = \d+(\.\d+)?  *)
(***************************************************************************)
\* the length of the prefix of s that \d+(?:\.\d+)? matches, 0 when none
NumberLen(s) ==
    LET n == Span(s, Digits)
        rest == SubSeq(s, n + 1, Len(s))
        f == IF HasPrefix(rest, ".") THEN Span(Tail(rest), Digits) ELSE 0
    IN  IF n = 0 THEN 0 ELSE IF f > 0 THEN n + 1 + f ELSE n

\* s after the optional groups (?:nL)? for the letters L, taken in order
RECURSIVE SkipGroups(_, _)
SkipGroups(s, letters) ==
    IF letters = <<>> THEN s
    ELSE LET n == NumberLen(s)
         IN  IF n > 0 /\ Len(s) > n /\ s[n + 1] = Head(letters)
             THEN SkipGroups(SubSeq(s, n + 2, Len(s)), Tail(letters))
             ELSE SkipGroups(s, Tail(letters))

durationPattern(s) ==
    LET a == IF HasPrefix(s, "-") THEN Tail(s) ELSE s
        b == SkipGroups(Tail(a), <<"Y", "M", "W", "D">>)
        c == IF HasPrefix(b, "T") THEN SkipGroups(Tail(b), <<"H", "M", "S">>) ELSE b
    IN  HasPrefix(a, "P") /\ c = <<>>

(***************************************************************************)
(* The literals the duration codec is run on.                              *)
(***************************************************************************)
DateUnits == <<"Y", "Mo", "W", "D">>
TimeUnits == <<"H", "Mi", "S">>
UnitNames == {"Y", "Mo", "W", "D", "H", "Mi", "S"}

UnitLetter(u) == IF u = "Mo" \/ u = "Mi" THEN "M" ELSE u

\* the elapsed time one of a unit denotes under the codec's stated policy
UnitTicks(u) ==
    CASE u = "Y" -> 365 * Day [] u = "Mo" -> 30 * Day [] u = "W" -> 7 * Day
      [] u = "D" -> Day [] u = "H" -> Hour [] u = "Mi" -> Minute [] u = "S" -> Second

\* a component value n or n.5, written as [whole |-> n, half |-> BOOLEAN]
ComponentValues == [whole : 0..MaxComponent, half : BOOLEAN]

ValueText(v) ==
    IntToDigits(v.whole) \o (IF v.half THEN <<".", "5">> ELSE <<>>)

ValueTicks(v, u) == v.whole * UnitTicks(u) + (IF v.half THEN UnitTicks(u) \div 2 ELSE 0)

RECURSIVE UnitsText(_, _)
UnitsText(units, comps) ==
    IF units = <<>> THEN <<>>
    ELSE (IF Head(units) \in DOMAIN comps
          THEN ValueText(comps[Head(units)]) \o <<UnitLetter(Head(units))>>
          ELSE <<>>) \o UnitsText(Tail(units), comps)

\* [-]P[nY][nM][nW][nD][T[nH][nM][nS]] written from its components; t says
\* whether a T is written when no time component follows it
ShapeText(sh) ==
    (IF sh.neg THEN <<"-">> ELSE <<>>) \o <<"P">>
    \o UnitsText(DateUnits, sh.comps)
    \o (IF sh.t \/ (DOMAIN sh.comps) \cap {"H", "Mi", "S"} # {} THEN <<"T">> ELSE <<>>)
    \o UnitsText(TimeUnits, sh.comps)

Shapes ==
    { [neg |-> n, t |-> t, comps |-> c] :
        n \in BOOLEAN, t \in BOOLEAN,
        c \in UNION { [U -> ComponentValues] :
                        U \in { X \in SUBSET UnitNames : Cardinality(X) <= MaxUnits } } }

NoShape == [neg |-> FALSE, t |-> FALSE, comps |-> <<>>, none |-> TRUE]

LitAlphabet == {"-", "P", "T", "D", "H", "x", "1"}

RECURSIVE SeqsUpTo(_, _)
SeqsUpTo(S, n) ==
    IF n = 0 THEN {<<>>}
    ELSE LET shorter == SeqsUpTo(S, n - 1)
         IN  shorter \cup { Append(s, c) : s \in shorter, c \in S }

ArbitraryLiterals == SeqsUpTo(LitAlphabet, MaxLitLen)

(***************************************************************************)
(* The duration codec as a state machine.                                  *)
(***************************************************************************)
DurInit ==
    /\ \/ \E sh \in Shapes : shape = sh /\ lit = ShapeText(sh)
       \/ \E s \in ArbitraryLiterals : shape = NoShape /\ lit = s
    /\ dpc = "input"
    /\ dval = 0
    /\ derr = FALSE
    /\ dout = <<>>
    /\ dre = 0

\* d, err := parseISO8601Duration(lit)
ParseDuration ==
    /\ dpc = "input"
    /\ LET r == parseISO8601Duration(lit)
       IN  dval' = r.d /\ derr' = r.err
    /\ dpc' = "parsed"
    /\ UNCHANGED <<lit, shape, dout, dre>>
    /\ UNCHANGED notDur

\* s := formatISO8601Duration(d), for the d a successful parse returned
FormatDuration ==
    /\ dpc = "parsed"
    /\ ~derr
    /\ dout' = formatISO8601Duration(dval)
    /\ dpc' = "formatted"
    /\ UNCHANGED <<lit, shape, dval, derr, dre>>
    /\ UNCHANGED notDur

\* d2, _ := parseISO8601Duration(s)
ReparseDuration ==
    /\ dpc = "formatted"
    /\ dre' = parseISO8601Duration(dout).d
    /\ dpc' = "reparsed"
    /\ UNCHANGED <<lit, shape, dval, derr, dout>>
    /\ UNCHANGED notDur

DurNext == ParseDuration \/ FormatDuration \/ ReparseDuration

DurIdle ==
    /\ lit = <<>>
    /\ shape = NoShape
    /\ dpc = "idle"
    /\ dval = 0
    /\ derr = FALSE
    /\ dout = <<>>
    /\ dre = 0

(***************************************************************************)
(* Values of the object model (types.go, event.go).                        *)
(*                                                                         *)
(* A Go pointer is a sequence of length 0 (nil) or 1; a Go map is a        *)
(* function on its keys.  A string whose length matters and whose content  *)
(* beyond its first characters does not (uid, title, description) is its   *)
(* first characters, text, followed by pad filler characters "a".          *)
(***************************************************************************)
Nil == <<>>
Ptr(v) == <<v>>
EmptyMap == <<>>

Str(text, pad) == [text |-> text, pad |-> pad]
StrLen(s) == Len(s.text) + s.pad

\* strings.HasPrefix(s, p) and strings.Contains(s, c)
HasPrefixSeq(s, p) == Len(s) >= Len(p) /\ SubSeq(s, 1, Len(p)) = p
Contains(s, c) == Index(s, c) > 0

Lower == {"a", "b", "c", "d", "e", "f", "g", "h", "i", "j", "k", "l", "m",
          "n", "o", "p", "q", "r", "s", "t", "u", "v", "w", "x", "y", "z"}
Upper == {"A", "B", "C", "D", "E", "F", "G", "H", "I", "J", "K", "L", "M",
          "N", "O", "P", "Q", "R", "S", "T", "U", "V", "W", "X", "Y", "Z"}
HexDigits == Digits \cup {"a", "b", "c", "d", "e", "f", "A", "B", "C", "D", "E", "F"}

\* a time.Time: the instant in seconds and nanoseconds since the zero time,
\* and the offset in seconds of the zone it carries
Time(sec, nsec, off) == [sec |-> sec, nsec |-> nsec, off |-> off]
ZeroTime == Time(0, 0, 0)

SecondsPerDay == 24 * 60 * 60

\* the wall clock of a time.Time, in seconds: what Year() ... Second() show
Wall(t) == t.sec + t.off

\* time.Time.IsZero
IsZero(t) == t.sec = 0 /\ t.nsec = 0

(***************************************************************************)
(* Validation constants and patterns (validate.go, constants.go).          *)
(***************************************************************************)
MaxTitleLength == 1024
MaxDescriptionLength == 32768
MaxUIDLength == 255
PriorityMin == 0
PriorityMax == 9

\* timezonePattern: ^[A-Za-z0-9/_+-]+$
timezonePattern(s) ==
    /\ Len(s) > 0
    /\ \A i \in 1..Len(s) : s[i] \in Lower \cup Upper \cup Digits \cup {"/", "_", "+", "-"}

\* colorPattern: ^(?:#[0-9a-fA-F]{3,8}|rgb\(|rgba\(|hsl\(|hsla\(|[a-zA-Z]+)
colorPattern(s) ==
    \/ HasPrefix(s, "#") /\ Span(Tail(s), HexDigits) >= 3
    \/ HasPrefixSeq(s, <<"r", "g", "b", "(">>)
    \/ HasPrefixSeq(s, <<"r", "g", "b", "a", "(">>)
    \/ HasPrefixSeq(s, <<"h", "s", "l", "(">>)
    \/ HasPrefixSeq(s, <<"h", "s", "l", "a", "(">>)
    \/ Len(s) > 0 /\ s[1] \in Lower \cup Upper

\* Whether net/url's Parse returns an error: a control character, a leading
\* colon (missing protocol scheme), or a % not followed by two hexadecimal
\* digits.  The URIs of the model fail in no other way.
urlParseFails(s) ==
    \/ \E i \in 1..Len(s) : s[i] = "\n"
    \/ HasPrefix(s, ":")
    \/ \E i \in 1..Len(s) :
         /\ s[i] = "%"
         /\ ~(i + 2 <= Len(s) /\ s[i + 1] \in HexDigits /\ s[i + 2] \in HexDigits)

(***************************************************************************)
(* ValidationError and ValidationErrors (validate.go).  Value is left out. *)
(*                                                                         *)
(* Go ranges over a map in an unspecified order, so a validator that       *)
(* ranges over a map yields a set of possible error lists, one for each    *)
(* order.                                                                  *)
(***************************************************************************)
ValidationError(field, message) == [Field |-> field, Message |-> message]

\* "if cond { errors = append(errors, ValidationError{...}) }"
Check(cond, field, message) ==
    IF cond THEN <<ValidationError(field, message)>> ELSE <<>>

\* for k, v := range m { errors = append(errors, f[k]...) }: f[k] is the set
\* of lists the body may append for key k
RECURSIVE RangeOver(_, _)
RangeOver(keys, f) ==
    IF keys = {} THEN {<<>>}
    ELSE UNION { { a \o b : a \in f[k], b \in RangeOver(keys \ {k}, f) } : k \in keys }

\* the lists a \o b for a in A and b in B
Concat(A, B) == { a \o b : a \in A, b \in B }

ParticipationStatuses == {"needs-action", "accepted", "declined", "tentative", "delegated"}
ScheduleAgents == {"server", "client", "none"}
Kinds == {"individual", "group", "resource", "location", "unknown"}
Roles == {"owner", "attendee", "optional", "informational", "chair", "contact"}
RelativeTos == {"start", "end"}
Frequencies == {"yearly", "monthly", "weekly", "daily", "hourly", "minutely", "secondly"}
RScales == {"gregorian", "chinese", "hebrew", "islamic", "islamic-civil", "islamic-tbla",
            "persian", "ethiopic", "coptic", "japanese", "buddhist", "indian"}
Skips == {"forward", "backward", "omit"}
Days == {"mo", "tu", "we", "th", "fr", "sa", "su"}
AlertActions == {"display", "email"}
Statuses == {"confirmed", "tentative", "cancelled"}
FreeBusyStatuses == {"free", "busy", "tentative", "unavailable"}
PrivacyLevels == {"public", "private", "secret"}
Methods == {"publish", "request", "reply", "add", "cancel", "refresh", "counter",
            "declineCounter"}
ContentTypes == {"text/plain", "text/html"}

validateParticipant(id, p) ==
    IF p = Nil THEN {<<>>}
    ELSE
    LET v == p[1]
        pre == "participants[" \o id \o "]"
        fixed ==
            Check(v.Email # Nil /\ v.Email # Ptr(<<>>) /\ ~Contains(v.Email[1], "@"),
                  pre \o ".email", "invalid email format")
            \o Check(v.ParticipationStatus # Nil
                       /\ v.ParticipationStatus[1] \notin ParticipationStatuses,
                     pre \o ".participationStatus", "invalid participationStatus")
            \o Check(v.ScheduleAgent # Nil /\ v.ScheduleAgent[1] \notin ScheduleAgents,
                     pre \o ".scheduleAgent", "invalid scheduleAgent")
            \o Check(v.Kind # Nil /\ v.Kind[1] \notin Kinds,
                     pre \o ".kind", "invalid kind")
        roles == [role \in DOMAIN v.Roles |->
                    {Check(role \notin Roles, pre \o ".roles[" \o role \o "]", "invalid role")}]
    IN  Concat({fixed}, RangeOver(DOMAIN v.Roles, roles))

validateLink(id, l) ==
    IF l = Nil THEN {<<>>}
    ELSE
    LET href == l[1].Href
    IN  { IF href = <<>>
          THEN <<ValidationError("links[" \o id \o "].href", "is required")>>
          ELSE Check(urlParseFails(href), "links[" \o id \o "].href", "invalid URL format") }

validateLocation(id, l) ==
    IF l = Nil THEN {<<>>}
    ELSE
    LET v == l[1]
        pre == "locations[" \o id \o "]"
        fixed ==
            Check(v.Coordinates # Nil
                    /\ ~HasPrefixSeq(v.Coordinates[1], <<"g", "e", "o", ":">>),
                  pre \o ".coordinates", "must be a geo: URI")
            \o Check(v.RelativeTo # Nil /\ v.RelativeTo[1] \notin RelativeTos,
                     pre \o ".relativeTo", "invalid relativeTo")
            \o Check(v.TimeZone # Nil /\ v.TimeZone # Ptr(<<>>)
                       /\ ~timezonePattern(v.TimeZone[1]),
                     pre \o ".timeZone", "invalid IANA timezone identifier")
        links == [linkId \in DOMAIN v.Links |->
                    validateLink(pre \o ".links[" \o linkId \o "]", v.Links[linkId])]
    IN  Concat({fixed}, RangeOver(DOMAIN v.Links, links))

validateVirtualLocation(id, vl) ==
    IF vl = Nil THEN {<<>>}
    ELSE
    LET v == vl[1]
        pre == "virtualLocations[" \o id \o "]"
        fixed ==
            Check(v.Type # "VirtualLocation", pre \o ".@type", "must be 'VirtualLocation'")
            \o (IF v.URI = <<>>
                THEN <<ValidationError(pre \o ".uri", "is required")>>
                ELSE Check(urlParseFails(v.URI), pre \o ".uri", "invalid URI format"))
        features == [feature \in DOMAIN v.Features |->
                       {Check(~v.Features[feature], pre \o ".features[" \o feature \o "]",
                              "feature value must be true (RFC 8984: features are a String[Boolean] set)")}]
    IN  Concat({fixed}, RangeOver(DOMAIN v.Features, features))

validateAlert(id, a) ==
    IF a = Nil THEN {<<>>}
    ELSE
    LET v == a[1]
        pre == "alerts[" \o id \o "]"
        trigger ==
            IF v.Trigger = Nil
            THEN <<ValidationError(pre \o ".trigger", "is required")>>
            ELSE
            LET t == v.Trigger[1]
            IN  Check(t.Type # "OffsetTrigger", pre \o ".trigger.@type",
                      "must be 'OffsetTrigger'")
                \o Check(t.Offset = <<>>, pre \o ".trigger", "must have either offset or when")
                \o Check(t.Offset # <<>> /\ ~durationPattern(t.Offset),
                         pre \o ".trigger.offset", "invalid ISO 8601 duration format")
                \o Check(t.RelativeTo # Nil /\ t.RelativeTo[1] \notin RelativeTos,
                         pre \o ".trigger.relativeTo", "invalid relativeTo")
    IN  { Check(v.Type # "Alert", pre \o ".@type", "must be 'Alert'")
          \o trigger
          \o Check(v.Action # Nil /\ v.Action[1] \notin AlertActions,
                   pre \o ".action", "invalid action") }

\* Accepts a rule that has both count and until.
validateRecurrenceRule_untilWins(fieldPrefix, rr) ==
    IF rr = Nil THEN <<>>
    ELSE
    LET v == rr[1]
    IN  Check(v.Type # "RecurrenceRule", fieldPrefix \o ".@type", "must be 'RecurrenceRule'")
        \o (IF v.Frequency = ""
            THEN <<ValidationError(fieldPrefix \o ".frequency", "is required")>>
            ELSE Check(v.Frequency \notin Frequencies,
                       fieldPrefix \o ".frequency", "invalid frequency"))
        \o Check(v.Interval # Nil /\ v.Interval[1] < 1,
                 fieldPrefix \o ".interval", "must be positive")
        \o Check(v.Count # Nil /\ v.Count[1] < 1,
                 fieldPrefix \o ".count", "must be positive")
        \o Check(v.RScale # Nil /\ v.RScale[1] # "" /\ v.RScale[1] \notin RScales,
                 fieldPrefix \o ".rscale", "invalid rscale")
        \o Check(v.Skip # Nil /\ v.Skip[1] # "" /\ v.Skip[1] \notin Skips,
                 fieldPrefix \o ".skip", "invalid skip")
        \o Check(v.FirstDayOfWeek # Nil
                   /\ (v.FirstDayOfWeek[1] < 0 \/ v.FirstDayOfWeek[1] > 6),
                 fieldPrefix \o ".firstDayOfWeek", "invalid firstDayOfWeek")
        \o LET byDay[i \in 0..Len(v.ByDay)] ==
                   IF i = 0 THEN <<>>
                   ELSE byDay[i - 1]
                        \o Check(v.ByDay[i].Day \notin Days,
                                 fieldPrefix \o ".byDay[" \o ToString(i - 1) \o "].day",
                                 "invalid day")
           IN  byDay[Len(v.ByDay)]

validateRecurrenceRule(fieldPrefix, rr) ==
    IF rr = Nil THEN <<>>
    ELSE
    LET v == rr[1]
    IN  Check(v.Type # "RecurrenceRule", fieldPrefix \o ".@type", "must be 'RecurrenceRule'")
        \o (IF v.Frequency = ""
            THEN <<ValidationError(fieldPrefix \o ".frequency", "is required")>>
            ELSE Check(v.Frequency \notin Frequencies,
                       fieldPrefix \o ".frequency", "invalid frequency"))
        \o Check(v.Interval # Nil /\ v.Interval[1] < 1,
                 fieldPrefix \o ".interval", "must be positive")
        \o Check(v.Count # Nil /\ v.Count[1] < 1,
                 fieldPrefix \o ".count", "must be positive")
        \o Check(v.Count # Nil /\ v.Until # Nil,
                 fieldPrefix, "cannot have both count and until")
        \o Check(v.RScale # Nil /\ v.RScale[1] # "" /\ v.RScale[1] \notin RScales,
                 fieldPrefix \o ".rscale", "invalid rscale")
        \o Check(v.Skip # Nil /\ v.Skip[1] # "" /\ v.Skip[1] \notin Skips,
                 fieldPrefix \o ".skip", "invalid skip")
        \o Check(v.FirstDayOfWeek # Nil
                   /\ (v.FirstDayOfWeek[1] < 0 \/ v.FirstDayOfWeek[1] > 6),
                 fieldPrefix \o ".firstDayOfWeek", "invalid firstDayOfWeek")
        \o LET byDay[i \in 0..Len(v.ByDay)] ==
                   IF i = 0 THEN <<>>
                   ELSE byDay[i - 1]
                        \o Check(v.ByDay[i].Day \notin Days,
                                 fieldPrefix \o ".byDay[" \o ToString(i - 1) \o "].day",
                                 "invalid day")
           IN  byDay[Len(v.ByDay)]

(***************************************************************************)
(* Event.Validate (validate.go).  The result is the error value returned:  *)
(* nil, a single ValidationError (nil receiver) or a ValidationErrors.     *)
(***************************************************************************)
NoError == [kind |-> "nil", errors |-> <<>>]

Returned(errors) ==
    IF Len(errors) > 0 THEN [kind |-> "ValidationErrors", errors |-> errors]
    ELSE NoError

\* the checks on the event's own fields, in the order of the code
EventFieldErrors(e) ==
    Check(e.Type # "Event", "@type", "must be 'Event'")
    \o (IF StrLen(e.UID) = 0
        THEN <<ValidationError("uid", "is required")>>
        ELSE Check(StrLen(e.UID) > MaxUIDLength, "uid",
                   "exceeds maximum length of " \o ToString(MaxUIDLength) \o " characters"))
    \o Check(e.Start = Nil, "start", "is required")
    \o Check(e.Title # Nil /\ StrLen(e.Title[1]) > MaxTitleLength, "title",
             "exceeds maximum length of " \o ToString(MaxTitleLength) \o " characters")
    \o Check(e.Description # Nil /\ StrLen(e.Description[1]) > MaxDescriptionLength,
             "description",
             "exceeds maximum length of " \o ToString(MaxDescriptionLength) \o " characters")
    \o Check(e.Duration # Nil /\ ~durationPattern(e.Duration[1]),
             "duration", "invalid ISO 8601 duration format")
    \o Check(e.TimeZone # Nil /\ ~timezonePattern(e.TimeZone[1]),
             "timeZone", "invalid IANA timezone identifier")
    \o Check(e.Color # Nil /\ ~colorPattern(e.Color[1]), "color", "invalid CSS color value")
    \o Check(e.Status # Nil /\ e.Status[1] \notin Statuses, "status", "invalid status")
    \o Check(e.FreeBusyStatus # Nil /\ e.FreeBusyStatus[1] \notin FreeBusyStatuses,
             "freeBusyStatus", "invalid freeBusyStatus")
    \o Check(e.Privacy # Nil /\ e.Privacy[1] \notin PrivacyLevels, "privacy", "invalid privacy")
    \o Check(e.Priority # Nil
               /\ (e.Priority[1] < PriorityMin \/ e.Priority[1] > PriorityMax),
             "priority",
             "must be between " \o ToString(PriorityMin) \o " and " \o ToString(PriorityMax))
    \o Check(e.Method # Nil /\ e.Method[1] \notin Methods, "method", "invalid method value")
    \o Check(e.DescriptionContentType # Nil
               /\ e.DescriptionContentType[1] \notin ContentTypes,
             "descriptionContentType", "must be text/plain or text/html")
    \o Check(e.Sequence # Nil /\ e.Sequence[1] < 0, "sequence", "cannot be negative")

\* for i, rule := range e.RecurrenceRules: a slice, ranged over in index order
RecurrenceRulesErrors(rules) ==
    LET upTo[i \in 0..Len(rules)] ==
            IF i = 0 THEN <<>>
            ELSE upTo[i - 1]
                 \o validateRecurrenceRule("recurrenceRules[" \o ToString(i - 1) \o "]",
                                           Ptr(rules[i]))
    IN  upTo[Len(rules)]

\* Stops at the first violation found.
Validate_firstOnly(ev) ==
    IF ev = Nil
    THEN {[kind |-> "ValidationError",
           errors |-> <<ValidationError("event", "event is nil")>>]}
    ELSE
    LET e == ev[1]
        all == Concat({EventFieldErrors(e)},
               Concat(RangeOver(DOMAIN e.Participants,
                        [id \in DOMAIN e.Participants |->
                           validateParticipant(id, e.Participants[id])]),
               Concat(RangeOver(DOMAIN e.Locations,
                        [id \in DOMAIN e.Locations |-> validateLocation(id, e.Locations[id])]),
               Concat(RangeOver(DOMAIN e.VirtualLocations,
                        [id \in DOMAIN e.VirtualLocations |->
                           validateVirtualLocation(id, e.VirtualLocations[id])]),
               Concat(RangeOver(DOMAIN e.Alerts,
                        [id \in DOMAIN e.Alerts |-> validateAlert(id, e.Alerts[id])]),
               Concat(RangeOver(DOMAIN e.Links,
                        [id \in DOMAIN e.Links |-> validateLink(id, e.Links[id])]),
                      {RecurrenceRulesErrors(e.RecurrenceRules)}))))))
    IN  { Returned(IF Len(errors) > 0 THEN <<errors[1]>> ELSE <<>>) : errors \in all }

\* The values (e *Event) Validate() may return: one for each order in which
\* the maps of the event are ranged over.
Validate(ev) ==
    IF ev = Nil
    THEN {[kind |-> "ValidationError",
           errors |-> <<ValidationError("event", "event is nil")>>]}
    ELSE
    LET e == ev[1]
        all == Concat({EventFieldErrors(e)},
               Concat(RangeOver(DOMAIN e.Participants,
                        [id \in DOMAIN e.Participants |->
                           validateParticipant(id, e.Participants[id])]),
               Concat(RangeOver(DOMAIN e.Locations,
                        [id \in DOMAIN e.Locations |-> validateLocation(id, e.Locations[id])]),
               Concat(RangeOver(DOMAIN e.VirtualLocations,
                        [id \in DOMAIN e.VirtualLocations |->
                           validateVirtualLocation(id, e.VirtualLocations[id])]),
               Concat(RangeOver(DOMAIN e.Alerts,
                        [id \in DOMAIN e.Alerts |-> validateAlert(id, e.Alerts[id])]),
               Concat(RangeOver(DOMAIN e.Links,
                        [id \in DOMAIN e.Links |-> validateLink(id, e.Links[id])]),
                      {RecurrenceRulesErrors(e.RecurrenceRules)}))))))
    IN  { Returned(errors) : errors \in all }

(***************************************************************************)
(* Construction of events (event.go, types.go): the zero values of the     *)
(* structs, the constructors, and the values the validator is given.       *)
(***************************************************************************)
\* Event{}: every field at its zero value
ZeroEvent ==
    [Type |-> "", UID |-> Str(<<>>, 0), Created |-> Nil, Updated |-> Nil,
     Sequence |-> Nil, Method |-> Nil, Title |-> Nil, Description |-> Nil,
     DescriptionContentType |-> Nil, ShowWithoutTime |-> Nil, Categories |-> EmptyMap,
     Color |-> Nil, Start |-> Nil, Duration |-> Nil, TimeZone |-> Nil,
     RecurrenceRules |-> <<>>, ExcludedRecurrenceRules |-> <<>>, Keywords |-> EmptyMap,
     Priority |-> Nil, FreeBusyStatus |-> Nil, Privacy |-> Nil,
     Participants |-> EmptyMap, Alerts |-> EmptyMap, Links |-> EmptyMap,
     Locations |-> EmptyMap, VirtualLocations |-> EmptyMap, Status |-> Nil]

\* NewEvent(uid, title), called when the clock reads now
NewEvent(uid, title, now) ==
    Ptr([ZeroEvent EXCEPT !.Type = "Event", !.UID = uid, !.Title = Ptr(title),
                          !.Start = Ptr(now), !.Created = Ptr(now), !.Updated = Ptr(now),
                          !.Sequence = Ptr(0)])

ZeroParticipant ==
    [Name |-> Nil, Email |-> Nil, Kind |-> Nil, Roles |-> EmptyMap,
     ParticipationStatus |-> Nil, ScheduleAgent |-> Nil]

NewParticipant(name, email) ==
    Ptr([ZeroParticipant EXCEPT !.Name = Ptr(name), !.Email = Ptr(email),
                                !.Roles = [r \in {"attendee"} |-> TRUE]])

ZeroLocation ==
    [Type |-> Nil, Name |-> Nil, RelativeTo |-> Nil, TimeZone |-> Nil,
     Coordinates |-> Nil, Links |-> EmptyMap]

NewLocation(name) == Ptr([ZeroLocation EXCEPT !.Type = Ptr("Location"), !.Name = Ptr(name)])

NewVirtualLocation(name, uri) ==
    Ptr([Type |-> "VirtualLocation", Name |-> Ptr(name), URI |-> uri, Features |-> EmptyMap])

NewLink(href) == Ptr([Href |-> href])

ZeroRecurrenceRule ==
    [Type |-> "", Frequency |-> "", Interval |-> Nil, RScale |-> Nil, Skip |-> Nil,
     FirstDayOfWeek |-> Nil, ByDay |-> <<>>, Count |-> Nil, Until |-> Nil]

NewRecurrenceRule(frequency) ==
    [ZeroRecurrenceRule EXCEPT !.Type = "RecurrenceRule", !.Frequency = frequency]

\* a moment of the clock, and texts used below
SomeTime == Time(86400, 0, 0)
TextA == <<"a">>
TextOkURL == <<"h", "t", "t", "p", ":", "/", "/", "a">>
TextBadURL == <<"%", "z", "z">>
TextEmail == <<"a", "@", "b">>

\* The example of a thrice invalid event: empty uid, priority 10 and a
\* participant with an unknown role.
ExampleEvent ==
    Ptr([ZeroEvent EXCEPT
           !.Type = "Event", !.Start = Ptr(SomeTime), !.Priority = Ptr(10),
           !.Participants =
               [id \in {"p1"} |->
                  Ptr([ZeroParticipant EXCEPT !.Roles = [r \in {"invalid-role"} |-> TRUE]])]])

\* Assignments to one field of an event
FieldSamples ==
    {<<"Type", "">>,
     <<"UID", Str(<<>>, 0)>>, <<"UID", Str(TextA, MaxUIDLength - 1)>>,
     <<"UID", Str(TextA, MaxUIDLength)>>,
     <<"Start", Nil>>,
     <<"Title", Nil>>, <<"Title", Ptr(Str(TextA, MaxTitleLength - 1))>>,
     <<"Title", Ptr(Str(TextA, MaxTitleLength))>>,
     <<"Description", Ptr(Str(TextA, MaxDescriptionLength - 1))>>,
     <<"Description", Ptr(Str(TextA, MaxDescriptionLength))>>,
     <<"Duration", Ptr(<<"P", "T", "1", "H">>)>>, <<"Duration", Ptr(<<"1", "H">>)>>, <<"Duration", Ptr(<<>>)>>,
     <<"TimeZone", Ptr(<<"U", "T", "C">>)>>, <<"TimeZone", Ptr(<<"a", " ", "b">>)>>,
     <<"Color", Ptr(<<"r", "e", "d">>)>>, <<"Color", Ptr(<<"#", "f", "f">>)>>,
     <<"Status", Ptr("confirmed")>>, <<"Status", Ptr("done")>>,
     <<"FreeBusyStatus", Ptr("away")>>,
     <<"Privacy", Ptr("confidential")>>,
     <<"Priority", Ptr(PriorityMax)>>, <<"Priority", Ptr(PriorityMax + 1)>>,
     <<"Priority", Ptr(PriorityMin - 1)>>,
     <<"Method", Ptr("invite")>>,
     <<"DescriptionContentType", Ptr("text/html")>>,
     <<"DescriptionContentType", Ptr("text/markdown")>>,
     <<"Sequence", Ptr(-1)>>, <<"Sequence", Nil>>,
     <<"ExcludedRecurrenceRules", <<NewRecurrenceRule("daily")>>>>,
     <<"ExcludedRecurrenceRules",
       <<[NewRecurrenceRule("daily") EXCEPT !.Count = Ptr(3), !.Until = Ptr(SomeTime)]>>>>,
     <<"ExcludedRecurrenceRules",
       <<[NewRecurrenceRule("daily") EXCEPT !.Interval = Ptr(0), !.FirstDayOfWeek = Ptr(7),
                                            !.ByDay = <<[Day |-> "xx", NthOfPeriod |-> Nil]>>]>>>>}

ParticipantIds == {"p1", "p2"}
ParticipantSamples ==
    {Nil,
     NewParticipant(TextA, TextEmail),
     Ptr([ZeroParticipant EXCEPT !.Roles = [r \in {"invalid-role", "guest"} |-> TRUE]]),
     Ptr([ZeroParticipant EXCEPT !.Email = Ptr(TextA), !.ParticipationStatus = Ptr("maybe"),
                                 !.ScheduleAgent = Ptr("robot"), !.Kind = Ptr("animal"),
                                 !.Roles = [r \in {"chair"} |-> TRUE]])}

LocationSamples ==
    {Nil,
     NewLocation(TextA),
     Ptr([ZeroLocation EXCEPT !.Coordinates = Ptr(TextA), !.RelativeTo = Ptr("middle"),
                              !.TimeZone = Ptr(<<"a", " ", "b">>)]),
     Ptr([ZeroLocation EXCEPT !.Coordinates = Ptr(<<"g", "e", "o", ":", "1">>), !.TimeZone = Ptr(<<>>),
                              !.Links = [id \in {"k1"} |-> NewLink(<<>>)]])}

VirtualLocationSamples ==
    {Nil,
     NewVirtualLocation(TextA, TextOkURL),
     Ptr([Type |-> "", Name |-> Nil, URI |-> <<>>, Features |-> EmptyMap]),
     Ptr([Type |-> "VirtualLocation", Name |-> Nil, URI |-> TextBadURL,
          Features |-> [f \in {"audio", "video"} |-> f = "audio"]])}

ZeroAlert == [Type |-> "", Trigger |-> Nil, Action |-> Nil]
AlertSamples ==
    {Nil,
     Ptr([Type |-> "Alert",
          Trigger |-> Ptr([Type |-> "OffsetTrigger", Offset |-> <<"-", "P", "T", "1", "5", "M">>,
                           RelativeTo |-> Ptr("start")]),
          Action |-> Ptr("display")]),
     Ptr([ZeroAlert EXCEPT !.Action = Ptr("ring")]),
     Ptr([Type |-> "Alert",
          Trigger |-> Ptr([Type |-> "", Offset |-> <<>>, RelativeTo |-> Nil]),
          Action |-> Nil]),
     Ptr([Type |-> "Alert",
          Trigger |-> Ptr([Type |-> "OffsetTrigger", Offset |-> <<"1", "5", "M">>,
                           RelativeTo |-> Ptr("middle")]),
          Action |-> Nil])}

LinkSamples == {Nil, NewLink(TextOkURL), NewLink(<<>>), NewLink(TextBadURL), NewLink(<<":", "a">>)}

\* Recurrence rules: every combination of count and until with rules that
\* are otherwise valid, empty, or invalid in each of their other fields
RuleProfiles ==
    {NewRecurrenceRule("daily"),
     ZeroRecurrenceRule,
     [NewRecurrenceRule("weekly") EXCEPT
        !.Interval = Ptr(2), !.RScale = Ptr("gregorian"), !.Skip = Ptr("omit"),
        !.FirstDayOfWeek = Ptr(6),
        !.ByDay = <<[Day |-> "mo", NthOfPeriod |-> Nil], [Day |-> "fr", NthOfPeriod |-> Ptr(-1)]>>],
     [NewRecurrenceRule("fortnightly") EXCEPT
        !.Interval = Ptr(0), !.RScale = Ptr("julian"), !.Skip = Ptr("never"),
        !.FirstDayOfWeek = Ptr(7),
        !.ByDay = <<[Day |-> "mo", NthOfPeriod |-> Nil], [Day |-> "xx", NthOfPeriod |-> Nil]>>]}

RuleSamples ==
    { [r EXCEPT !.Count = c, !.Until = u] :
        r \in RuleProfiles, c \in {Nil, Ptr(0), Ptr(3)}, u \in {Nil, Ptr(SomeTime)} }

\* the rules of the lists of two rules
PairSamples ==
    {NewRecurrenceRule("daily"),
     [NewRecurrenceRule("daily") EXCEPT !.Count = Ptr(3), !.Until = Ptr(SomeTime)],
     [ZeroRecurrenceRule EXCEPT !.Count = Ptr(0)]}

RuleLists ==
    {<<>>} \cup { <<r>> : r \in RuleSamples } \cup { <<a, b>> : a \in PairSamples, b \in PairSamples }

(***************************************************************************)
(* The validator's machine: an event is built and edited by its caller,    *)
(* then validated.                                                         *)
(***************************************************************************)
NotValidated == [kind |-> "none", errors |-> <<>>]

ValInit ==
    /\ event \in {Nil, NewEvent(Str(TextA, 0), Str(TextA, 0), SomeTime), ExampleEvent}
    /\ vpc = "built"
    /\ vres = NotValidated
    /\ edits = 0

ValIdle ==
    /\ event = Nil
    /\ vpc = "idle"
    /\ vres = NotValidated
    /\ edits = 0

Edited(e) ==
    /\ event' = Ptr(e)
    /\ edits' = edits + 1
    /\ UNCHANGED <<vpc, vres, lastNow>>
    /\ UNCHANGED notVal

CanEdit == vpc = "built" /\ event # Nil /\ edits < MaxEdits

\* e.<field> = value, by the caller
SetField ==
    /\ CanEdit
    /\ \E fv \in FieldSamples : Edited([event[1] EXCEPT ![fv[1]] = fv[2]])

\* m[id] = v on a map that is created when nil
MapSet(m, id, v) == [k \in DOMAIN m \cup {id} |-> IF k = id THEN v ELSE m[k]]

AddParticipant ==
    /\ CanEdit
    /\ \E id \in ParticipantIds, participant \in ParticipantSamples :
         Edited([event[1] EXCEPT !.Participants = MapSet(@, id, participant)])

AddLocation ==
    /\ CanEdit
    /\ \E location \in LocationSamples :
         Edited([event[1] EXCEPT !.Locations = MapSet(@, "l1", location)])

AddVirtualLocation ==
    /\ CanEdit
    /\ \E virtualLocation \in VirtualLocationSamples :
         Edited([event[1] EXCEPT !.VirtualLocations = MapSet(@, "v1", virtualLocation)])

AddAlert ==
    /\ CanEdit
    /\ \E alert \in AlertSamples :
         Edited([event[1] EXCEPT !.Alerts = MapSet(@, "a1", alert)])

AddLink ==
    /\ CanEdit
    /\ \E link \in LinkSamples :
         Edited([event[1] EXCEPT !.Links = MapSet(@, "k1", link)])

SetRecurrence ==
    /\ CanEdit
    /\ \E rules \in RuleLists :
         Edited([event[1] EXCEPT !.RecurrenceRules = rules])

AddCategory ==
    /\ CanEdit
    /\ Edited([event[1] EXCEPT !.Categories = MapSet(@, TextA, TRUE)])

AddKeyword ==
    /\ CanEdit
    /\ Edited([event[1] EXCEPT !.Keywords = MapSet(@, TextA, TRUE)])

\* time.Now(): a reading no earlier than the last one
Now == {lastNow, lastNow + 1}

\* Starts the sequence again at 1.
Touch_restarts(o, now) ==
    [o EXCEPT !.Updated = Ptr(Time(now, 0, 0)), !.Sequence = Ptr(1)]

\* Touch: "now := time.Now().UTC()", the updated timestamp and the sequence
Touch(o, now) ==
    [o EXCEPT !.Updated = Ptr(Time(now, 0, 0)),
              !.Sequence = IF @ # Nil THEN Ptr(@[1] + 1) ELSE Ptr(1)]

\* e.Touch()
EventTouch ==
    /\ CanEdit
    /\ \E now \in Now :
         /\ event' = Ptr(Touch(event[1], now))
         /\ lastNow' = now
    /\ edits' = edits + 1
    /\ UNCHANGED <<vpc, vres>>
    /\ UNCHANGED notVal

\* err := e.Validate()
CallValidate ==
    /\ vpc = "built"
    /\ \E err \in Validate(event) : vres' = err
    /\ vpc' = "validated"
    /\ UNCHANGED <<event, edits, lastNow>>
    /\ UNCHANGED notVal

ValNext ==
    \/ SetField
    \/ AddParticipant
    \/ AddLocation
    \/ AddVirtualLocation
    \/ AddAlert
    \/ AddLink
    \/ SetRecurrence
    \/ AddCategory
    \/ AddKeyword
    \/ EventTouch
    \/ CallValidate

(***************************************************************************)
(* LocalDateTime (localdatetime.go): a time.Time kept with the zone it was *)
(* given in.  The calendar is computed for the dates from 0000-12-01 to    *)
(* 0001-02-28, around the zero time 0001-01-01T00:00:00Z.                  *)
(***************************************************************************)
\* t.Year(), t.Month(), t.Day() of the day that is day days after 0001-01-01
CivilDate(day) ==
    IF day < 0 THEN [year |-> 0, month |-> 12, day |-> 32 + day]
    ELSE IF day < 31 THEN [year |-> 1, month |-> 1, day |-> day + 1]
    ELSE [year |-> 1, month |-> 2, day |-> day - 30]

CivilDays == (0 - 31)..58

\* floor division, for wall clocks before the zero time
FloorDiv(a, b) == IF a >= 0 THEN a \div b ELSE 0 - ((b - 1 - a) \div b)

\* fmt's zero-padded decimal of a given width
RECURSIVE Pad(_, _)
Pad(n, width) ==
    IF width = 0 THEN <<>> ELSE Append(Pad(n \div 10, width - 1), DigitChar(n % 10))

\* the ".999999999" of a layout: the fraction without its trailing zeros
RECURSIVE TrimZeros(_)
TrimZeros(ds) ==
    IF ds # <<>> /\ ds[Len(ds)] = "0" THEN TrimZeros(SubSeq(ds, 1, Len(ds) - 1)) ELSE ds

\* the "Z07:00" of a layout
ZoneText(off) ==
    IF off = 0 THEN <<"Z">>
    ELSE LET a == IF off < 0 THEN 0 - off ELSE off
         IN  <<IF off < 0 THEN "-" ELSE "+">> \o Pad(a \div 3600, 2) \o <<":">>
             \o Pad((a % 3600) \div 60, 2)

\* t.Format(time.RFC3339Nano)
FormatRFC3339Nano(t) ==
    LET w == Wall(t)
        d == CivilDate(FloorDiv(w, SecondsPerDay))
        s == w - FloorDiv(w, SecondsPerDay) * SecondsPerDay
        frac == TrimZeros(Pad(t.nsec, 9))
    IN  Pad(d.year, 4) \o <<"-">> \o Pad(d.month, 2) \o <<"-">> \o Pad(d.day, 2) \o <<"T">>
        \o Pad(s \div 3600, 2) \o <<":">> \o Pad((s % 3600) \div 60, 2) \o <<":">> \o Pad(s % 60, 2)
        \o (IF frac = <<>> THEN <<>> ELSE <<".">> \o frac)
        \o ZoneText(t.off)

\* strings.LastIndex(s, c): the 1-based position of the last c, 0 when none
LastIndex(s, c) ==
    IF \E i \in 1..Len(s) : s[i] = c
    THEN CHOOSE i \in 1..Len(s) : s[i] = c /\ \A j \in (i + 1)..Len(s) : s[j] # c
    ELSE 0

NewLocalDateTime(t) == Ptr(t)

\* (ldt *LocalDateTime) Time()
LdtTime(ldt) == IF ldt = Nil THEN ZeroTime ELSE ldt[1]

\* Cuts the designator off at a Z or a plus sign only.
LdtString_keepsMinus(t) ==
    LET s == FormatRFC3339Nano(t)
    IN  IF s[Len(s)] = "Z" THEN SubSeq(s, 1, Len(s) - 1)
        ELSE IF LastIndex(s, "+") - 1 > 0 THEN SubSeq(s, 1, LastIndex(s, "+") - 1)
        ELSE s

\* (ldt LocalDateTime) String(), which MarshalJSON quotes
LdtString(t) ==
    LET s == FormatRFC3339Nano(t)
    IN  IF s[Len(s)] = "Z" THEN SubSeq(s, 1, Len(s) - 1)
        ELSE IF LastIndex(s, "+") - 1 > 0 THEN SubSeq(s, 1, LastIndex(s, "+") - 1)
        ELSE IF LastIndex(s, "-") - 1 > 10 THEN SubSeq(s, 1, LastIndex(s, "-") - 1)
        ELSE s

\* time.Parse(layout, s) for the layouts of ParseLocalDateTime, which are
\* "2006-01-02T15:04:05" followed, when zoned, by "Z07:00".  A fraction of a
\* second is read after the seconds whether the layout has one or not.  The
\* result is Nil for an error and Ptr of the time otherwise.
ParseTime(s, zoned) ==
    IF ~(/\ Len(s) >= 19
         /\ \A i \in 1..19 :
              IF i \in {5, 8} THEN s[i] = "-"
              ELSE IF i = 11 THEN s[i] = "T"
              ELSE IF i \in {14, 17} THEN s[i] = ":"
              ELSE s[i] \in Digits)
    THEN Nil
    ELSE
    LET num(i, j) == DigitsValue(SubSeq(s, i, j))
        date == [year |-> num(1, 4), month |-> num(6, 7), day |-> num(9, 10)]
        rest == SubSeq(s, 20, Len(s))
        k == IF Len(rest) >= 2 /\ rest[1] \in {".", ","} /\ rest[2] \in Digits
             THEN Span(Tail(rest), Digits) ELSE 0
        kept == IF k > 9 THEN 9 ELSE k
        nsec == IF k = 0 THEN 0 ELSE DigitsValue(SubSeq(rest, 2, kept + 1)) * Pow10(9 - kept)
        zone == IF k = 0 THEN rest ELSE SubSeq(rest, k + 2, Len(rest))
        zoneOk == IF ~zoned THEN zone = <<>>
                  ELSE \/ zone = <<"Z">>
                       \/ /\ Len(zone) = 6
                          /\ zone[1] \in {"+", "-"}
                          /\ zone[4] = ":"
                          /\ \A i \in {2, 3, 5, 6} : zone[i] \in Digits
        off == IF ~zoned \/ zone = <<"Z">> THEN 0
               ELSE (IF zone[1] = "-" THEN 0 - 1 ELSE 1)
                    * (DigitsValue(SubSeq(zone, 2, 3)) * 3600 + DigitsValue(SubSeq(zone, 5, 6)) * 60)
    IN  IF /\ zoneOk
           /\ \E day \in CivilDays : CivilDate(day) = date
           /\ num(12, 13) < 24 /\ num(15, 16) < 60 /\ num(18, 19) < 60
        THEN LET day == CHOOSE d \in CivilDays : CivilDate(d) = date
             IN  Ptr(Time(day * SecondsPerDay + num(12, 13) * 3600 + num(15, 16) * 60
                          + num(18, 19) - off, nsec, off))
        ELSE Nil

\* Tries the two RFC 3339 layouts only.
ParseLocalDateTime_zonedOnly(s) ==
    LET given == IF ~Contains(s, "Z") /\ ~Contains(s, "+") /\ ~Contains(s, "-")
                    /\ Contains(s, "T")
                 THEN s \o <<"Z">> ELSE s
        t == ParseTime(given, TRUE)
    IN  IF t = Nil THEN [err |-> TRUE, value |-> Nil]
        ELSE [err |-> FALSE, value |-> NewLocalDateTime(t[1])]

\* ParseLocalDateTime(s): the formats are tried in turn, the zoned ones first
ParseLocalDateTime(s) ==
    LET given == IF ~Contains(s, "Z") /\ ~Contains(s, "+") /\ ~Contains(s, "-")
                    /\ Contains(s, "T")
                 THEN s \o <<"Z">> ELSE s
        t == IF ParseTime(given, TRUE) # Nil THEN ParseTime(given, TRUE)
             ELSE ParseTime(given, FALSE)
    IN  IF t = Nil THEN [err |-> TRUE, value |-> Nil]
        ELSE [err |-> FALSE, value |-> NewLocalDateTime(t[1])]

\* the fields Equal compares and Before and After order by: Year(), Month(),
\* Day(), Hour(), Minute(), Second() in the zone of the value, as the wall
\* clock in seconds, and Nanosecond()
Fields(t) == <<Wall(t), t.nsec>>

\* (ldt *LocalDateTime) Equal(other)
LdtEqual(ldt, other) ==
    IF ldt = Nil \/ other = Nil THEN ldt = other
    ELSE Fields(ldt[1]) = Fields(other[1])

\* (ldt *LocalDateTime) IsZero()
LdtIsZero(ldt) == IF ldt = Nil THEN TRUE ELSE IsZero(ldt[1])

\* Orders by the instants, as time.Time.Before does.
LdtBefore_byInstant(ldt, other) ==
    IF ldt = Nil \/ other = Nil THEN FALSE
    ELSE ldt[1].sec < other[1].sec
         \/ (ldt[1].sec = other[1].sec /\ ldt[1].nsec < other[1].nsec)

\* time.Time.Before of the times time.Date(fields..., time.UTC)
LdtBefore(ldt, other) ==
    IF ldt = Nil \/ other = Nil THEN FALSE
    ELSE LET a == Fields(ldt[1])
             b == Fields(other[1])
         IN  a[1] < b[1] \/ (a[1] = b[1] /\ a[2] < b[2])

LdtAfter(ldt, other) ==
    IF ldt = Nil \/ other = Nil THEN FALSE
    ELSE LET a == Fields(ldt[1])
             b == Fields(other[1])
         IN  a[1] > b[1] \/ (a[1] = b[1] /\ a[2] > b[2])

\* (ldt LocalDateTime) Sub(other): time.Time.Sub of the two values, the
\* difference of their instants.  The time.Duration is kept as its seconds
\* and nanoseconds, both of the sign of the duration or zero.
LdtSub(ldt, other) ==
    LET sec == ldt.sec - other.sec
        nsec == ldt.nsec - other.nsec
    IN  IF sec > 0 /\ nsec < 0 THEN [sec |-> sec - 1, nsec |-> nsec + 1000000000]
        ELSE IF sec < 0 /\ nsec > 0 THEN [sec |-> sec + 1, nsec |-> nsec - 1000000000]
        ELSE [sec |-> sec, nsec |-> nsec]

(***************************************************************************)
(* The LocalDateTime machine: the methods are called on a receiver la and  *)
(* an argument lb, la is printed and the text parsed, or a literal is      *)
(* parsed.                                                                 *)
(***************************************************************************)
\* time values in four zones, some with the same wall clock as others
TimeSamples ==
    { Time(sec, nsec, off) : sec \in {0, 7200, 100000}, nsec \in {0, 1, 500000000},
                             off \in {0, 7200, 0 - 18000, 19800} }

LdtSamples == {Nil} \cup { NewLocalDateTime(t) : t \in TimeSamples }

\* literals with a zone designator, without one, and malformed ones
LdtLiterals ==
    LET written == { t \in TimeSamples : t.sec = 100000 }
    IN  { FormatRFC3339Nano(t) : t \in written }
        \cup { LdtString(t) : t \in written }
        \cup { SubSeq(FormatRFC3339Nano(t), 1, 10) : t \in written }
        \cup { <<"T", "1", "0">>, <<>> }

LdtInit ==
    /\ la \in LdtSamples
    /\ lb \in LdtSamples
    /\ lpc = "input"
    /\ lres = <<>>

LdtIdle ==
    /\ la = Nil
    /\ lb = Nil
    /\ lpc = "idle"
    /\ lres = <<>>

\* la.Time(), la.IsZero(), la.Equal(lb), la.Before(lb), la.After(lb)
CallPredicates ==
    /\ lpc = "input"
    /\ lres' = [time |-> LdtTime(la), isZero |-> LdtIsZero(la), equal |-> LdtEqual(la, lb),
                before |-> LdtBefore(la, lb), after |-> LdtAfter(la, lb),
                sub |-> IF la # Nil /\ lb # Nil THEN Ptr(LdtSub(la[1], lb[1])) ELSE Nil]
    /\ lpc' = "compared"
    /\ UNCHANGED <<la, lb>>
    /\ UNCHANGED notLdt

\* la.String(): a method on the value, so that a nil la is dereferenced
CallString ==
    /\ lpc = "input"
    /\ lres' = IF la = Nil THEN [panic |-> TRUE, text |-> <<>>]
               ELSE [panic |-> FALSE, text |-> LdtString(la[1])]
    /\ lpc' = "printed"
    /\ UNCHANGED <<la, lb>>
    /\ UNCHANGED notLdt

\* ParseLocalDateTime(la.String())
ParseBack ==
    /\ lpc = "printed"
    /\ ~lres.panic
    /\ lres' = ParseLocalDateTime(lres.text)
    /\ lpc' = "parsed"
    /\ UNCHANGED <<la, lb>>
    /\ UNCHANGED notLdt

\* ParseLocalDateTime(s) for a literal s, whose result becomes la
ParseLiteral ==
    /\ lpc = "input"
    /\ \E s \in LdtLiterals :
         /\ lres' = ParseLocalDateTime(s)
         /\ la' = ParseLocalDateTime(s).value
    /\ lpc' = "decoded"
    /\ UNCHANGED lb
    /\ UNCHANGED notLdt

LdtNext ==
    \/ CallPredicates
    \/ CallString
    \/ ParseBack
    \/ ParseLiteral

(***************************************************************************)
(* Task (task.go): the struct, NewTask, the helpers and Task.Validate.     *)
(***************************************************************************)
ZeroTask ==
    [Type |-> "", UID |-> Str(<<>>, 0), Created |-> Nil, Updated |-> Nil,
     Sequence |-> Nil, Title |-> Nil, Description |-> Nil,
     Categories |-> EmptyMap, Start |-> Nil, Due |-> Nil, EstimatedDuration |-> Nil,
     PercentComplete |-> Nil, Progress |-> Nil, ProgressUpdated |-> Nil,
     RecurrenceRules |-> <<>>, ExcludedRecurrenceRules |-> <<>>,
     Priority |-> Nil, FreeBusyStatus |-> Nil, Privacy |-> Nil,
     Participants |-> EmptyMap, Alerts |-> EmptyMap, Links |-> EmptyMap,
     Locations |-> EmptyMap, VirtualLocations |-> EmptyMap, Status |-> Nil]

\* NewTask(uid, title), called when the clock reads now
NewTask(uid, title, now) ==
    Ptr([ZeroTask EXCEPT !.Type = "Task", !.UID = uid, !.Title = Ptr(title),
                         !.Created = Ptr(now), !.Updated = Ptr(now),
                         !.Sequence = Ptr(0), !.Progress = Ptr("needs-action")])

ProgressValues == {"needs-action", "in-process", "completed", "failed", "cancelled"}
TaskStatuses == {"needs-action", "in-process", "completed", "cancelled"}

\* time.Time.Before: the order of the instants
TimeBefore(t, u) == t.sec < u.sec \/ (t.sec = u.sec /\ t.nsec < u.nsec)

\* the checks on the task's own fields, in the order of the code
TaskFieldErrors(t) ==
    Check(t.Type # "Task", "@type", "must be 'Task'")
    \o Check(StrLen(t.UID) = 0, "uid", "is required")
    \o Check(StrLen(t.UID) > MaxUIDLength, "uid",
             "exceeds maximum length of " \o ToString(MaxUIDLength) \o " characters")
    \o Check(t.Title # Nil /\ StrLen(t.Title[1]) > MaxTitleLength, "title",
             "exceeds maximum length of " \o ToString(MaxTitleLength) \o " characters")
    \o Check(t.Description # Nil /\ StrLen(t.Description[1]) > MaxDescriptionLength,
             "description",
             "exceeds maximum length of " \o ToString(MaxDescriptionLength) \o " characters")
    \o Check(t.Progress # Nil /\ t.Progress[1] \notin ProgressValues,
             "progress", "invalid progress value")
    \o Check(t.PercentComplete # Nil
               /\ (t.PercentComplete[1] < 0 \/ t.PercentComplete[1] > 100),
             "percentComplete", "must be between 0 and 100")
    \o Check(t.EstimatedDuration # Nil /\ ~durationPattern(t.EstimatedDuration[1]),
             "estimatedDuration", "invalid ISO 8601 duration format")
    \o Check(t.Start # Nil /\ t.Due # Nil /\ TimeBefore(LdtTime(t.Due), LdtTime(t.Start)),
             "due", "due date cannot be before start date")
    \o Check(t.Status # Nil /\ t.Status[1] \notin TaskStatuses, "status", "invalid status")
    \o Check(t.Priority # Nil
               /\ (t.Priority[1] < PriorityMin \/ t.Priority[1] > PriorityMax),
             "priority",
             "must be between " \o ToString(PriorityMin) \o " and " \o ToString(PriorityMax))
    \o Check(t.FreeBusyStatus # Nil /\ t.FreeBusyStatus[1] \notin FreeBusyStatuses,
             "freeBusyStatus", "invalid freeBusyStatus")
    \o Check(t.Privacy # Nil /\ t.Privacy[1] \notin PrivacyLevels, "privacy", "invalid privacy")
    \o Check(t.Sequence # Nil /\ t.Sequence[1] < 0, "sequence", "cannot be negative")

\* The values (t *Task) Validate() may return: one for each order in which
\* the maps of the task are ranged over.
TaskValidate(tk) ==
    IF tk = Nil
    THEN {[kind |-> "ValidationError",
           errors |-> <<ValidationError("task", "task is nil")>>]}
    ELSE
    LET t == tk[1]
        all == Concat({TaskFieldErrors(t)},
               Concat(RangeOver(DOMAIN t.Participants,
                        [id \in DOMAIN t.Participants |->
                           validateParticipant(id, t.Participants[id])]),
               Concat(RangeOver(DOMAIN t.Locations,
                        [id \in DOMAIN t.Locations |-> validateLocation(id, t.Locations[id])]),
               Concat(RangeOver(DOMAIN t.VirtualLocations,
                        [id \in DOMAIN t.VirtualLocations |->
                           validateVirtualLocation(id, t.VirtualLocations[id])]),
               Concat(RangeOver(DOMAIN t.Alerts,
                        [id \in DOMAIN t.Alerts |-> validateAlert(id, t.Alerts[id])]),
               Concat(RangeOver(DOMAIN t.Links,
                        [id \in DOMAIN t.Links |-> validateLink(id, t.Links[id])]),
                      {RecurrenceRulesErrors(t.RecurrenceRules)}))))))
    IN  { Returned(errors) : errors \in all }

(***************************************************************************)
(* The task's machine: a task is built and edited by its caller, then      *)
(* validated.                                                              *)
(***************************************************************************)
\* start and due values decoded from literals with and without an offset:
\* 09:00Z, 10:00+02:00, 08:00-05:00 and 08:00Z, all on 0001-01-02
TaskTimes ==
    { ParseLocalDateTime(FormatRFC3339Nano(t)).value :
        t \in {Time(118800, 0, 0), Time(115200, 0, 7200), Time(133200, 0, 0 - 18000),
               Time(115200, 0, 0)} }

TaskFieldSamples ==
    { <<"Start", x>> : x \in TaskTimes } \cup { <<"Due", x>> : x \in TaskTimes }
    \cup {<<"UID", Str(<<>>, 0)>>, <<"Progress", Ptr("done")>>, <<"PercentComplete", Ptr(101)>>,
          <<"EstimatedDuration", Ptr(<<"1", "H">>)>>, <<"Status", Ptr("confirmed")>>,
          <<"Sequence", Nil>>,
          <<"ExcludedRecurrenceRules",
            <<[NewRecurrenceRule("daily") EXCEPT !.Count = Ptr(0), !.Until = Ptr(SomeTime)]>>>>}

TaskInit ==
    /\ task \in {Nil, NewTask(Str(TextA, 0), Str(TextA, 0), SomeTime)}
    /\ tpc = "built"
    /\ tres = NotValidated
    /\ tedits = 0

TaskIdle ==
    /\ task = Nil
    /\ tpc = "idle"
    /\ tres = NotValidated
    /\ tedits = 0

TaskEdited(t) ==
    /\ task' = Ptr(t)
    /\ tedits' = tedits + 1
    /\ UNCHANGED <<tpc, tres, lastNow>>
    /\ UNCHANGED notTask

TaskCanEdit == tpc = "built" /\ task # Nil /\ tedits < MaxEdits

\* t.<field> = value, by the caller
TaskSetField ==
    /\ TaskCanEdit
    /\ \E fv \in TaskFieldSamples : TaskEdited([task[1] EXCEPT ![fv[1]] = fv[2]])

TaskAddParticipant ==
    /\ TaskCanEdit
    /\ \E participant \in {NewParticipant(TextA, TextEmail),
                           Ptr([ZeroParticipant EXCEPT !.Roles = [r \in {"guest"} |-> TRUE]])} :
         TaskEdited([task[1] EXCEPT !.Participants = MapSet(@, "p1", participant)])

TaskAddLink ==
    /\ TaskCanEdit
    /\ \E link \in {NewLink(TextOkURL), NewLink(<<>>)} :
         TaskEdited([task[1] EXCEPT !.Links = MapSet(@, "k1", link)])

TaskAddCategory ==
    /\ TaskCanEdit
    /\ TaskEdited([task[1] EXCEPT !.Categories = MapSet(@, TextA, TRUE)])

TaskSetRecurrence ==
    /\ TaskCanEdit
    /\ \E rule \in PairSamples : TaskEdited([task[1] EXCEPT !.RecurrenceRules = <<rule>>])

\* t.SetProgress(progress, percentComplete): the clock is read for
\* progressUpdated, and again by Touch
SetProgress ==
    /\ TaskCanEdit
    /\ \E progress \in {"completed", "done"}, percentComplete \in {100, 101},
          now \in Now, later \in {0, 1} :
         /\ task' = Ptr(Touch([task[1] EXCEPT !.Progress = Ptr(progress),
                                              !.PercentComplete = Ptr(percentComplete),
                                              !.ProgressUpdated = Ptr(Time(now, 0, 0))],
                              now + later))
         /\ lastNow' = now + later
    /\ tedits' = tedits + 1
    /\ UNCHANGED <<tpc, tres>>
    /\ UNCHANGED notTask

\* t.Touch()
TaskTouch ==
    /\ TaskCanEdit
    /\ \E now \in Now :
         /\ task' = Ptr(Touch(task[1], now))
         /\ lastNow' = now
    /\ tedits' = tedits + 1
    /\ UNCHANGED <<tpc, tres>>
    /\ UNCHANGED notTask

\* err := t.Validate()
CallTaskValidate ==
    /\ tpc = "built"
    /\ \E err \in TaskValidate(task) : tres' = err
    /\ tpc' = "validated"
    /\ UNCHANGED <<task, tedits, lastNow>>
    /\ UNCHANGED notTask

TaskNext ==
    \/ TaskSetField
    \/ TaskAddParticipant
    \/ TaskAddLink
    \/ TaskAddCategory
    \/ TaskSetRecurrence
    \/ SetProgress
    \/ TaskTouch
    \/ CallTaskValidate

(***************************************************************************)
(* Group (group.go).  An entry is a CalendarObject: nil, or a dynamic type *)
(* with the struct the interface value points to.  EntriesNil tells the    *)
(* nil slice from the empty one: Entries is then empty.                    *)
(***************************************************************************)
ZeroGroup ==
    [Type |-> "", UID |-> Str(<<>>, 0), Created |-> Nil, Updated |-> Nil,
     Sequence |-> Nil, Title |-> Nil, Description |-> Nil, Keywords |-> EmptyMap,
     Categories |-> EmptyMap, Color |-> Nil, Links |-> EmptyMap, Entries |-> <<>>,
     EntriesNil |-> TRUE]

\* NewGroup(uid, title), called when the clock reads now
NewGroup(uid, title, now) ==
    Ptr([ZeroGroup EXCEPT !.Type = "Group", !.UID = uid, !.Title = Ptr(title),
                          !.Created = Ptr(now), !.Updated = Ptr(now), !.Sequence = Ptr(0),
                          !.EntriesNil = FALSE])

\* the interface value holding the *Event or *Task p
Entry(dyn, p) == [dyn |-> dyn, val |-> p[1]]

GetUID(entry) == entry.val.UID
GetType(entry) == entry.val.Type

\* json.Marshal(g): the members in the order of the fields; a member
\* tagged omitempty is left out when its pointer is nil or its map empty,
\* "entries" is not so tagged: null for the nil slice, else the array of
\* the entries, null for a nil one
GroupJSON(gp) ==
    IF gp = Nil THEN <<"null">>
    ELSE LET g == gp[1]
             Member(key, value) == [key |-> key, value |-> value, omit |-> FALSE]
             OmitEmpty(key, value) ==
                 [key |-> key, value |-> value, omit |-> DOMAIN value = {}]
             array == [i \in DOMAIN g.Entries |->
                         IF g.Entries[i] = Nil THEN <<"null">> ELSE g.Entries[i].val]
             members ==
                 <<Member("@type", g.Type), Member("uid", g.UID),
                   OmitEmpty("created", g.Created), OmitEmpty("updated", g.Updated),
                   OmitEmpty("sequence", g.Sequence), OmitEmpty("title", g.Title),
                   OmitEmpty("description", g.Description),
                   OmitEmpty("keywords", g.Keywords),
                   OmitEmpty("categories", g.Categories), OmitEmpty("color", g.Color),
                   OmitEmpty("links", g.Links),
                   Member("entries", IF g.EntriesNil THEN <<"null">> ELSE <<"[", array, "]">>)>>
         IN  SelectSeq(members, LAMBDA m : ~m.omit)

\* entry.Validate(), dispatched on the dynamic type
EntryValidate(entry) ==
    IF entry.dyn = "Event" THEN Validate(Ptr(entry.val)) ELSE TaskValidate(Ptr(entry.val))

\* "valErr.Field = fmt.Sprintf("entries[%d].%s", i, valErr.Field)" for each
\* violation of the entry at the 1-based position i
Prefixed(i, errs) ==
    [k \in DOMAIN errs |->
       [errs[k] EXCEPT !.Field = "entries[" \o ToString(i - 1) \o "]." \o @]]

\* the %s of fmt.Sprintf for a uid: its characters, one after the other
RECURSIVE Sprint(_)
Sprint(s) ==
    IF s.text # <<>> THEN s.text[1] \o Sprint(Str(Tail(s.text), s.pad))
    ELSE IF s.pad > 0 THEN "a" \o Sprint(Str(<<>>, s.pad - 1))
    ELSE ""

\* the body of the first loop over g.Entries, for the 1-based position i
EntryErrors(entries, i) ==
    IF entries[i] = Nil
    THEN {<<ValidationError("entries[" \o ToString(i - 1) \o "]", "entry cannot be nil")>>}
    ELSE LET uid == GetUID(entries[i])
             path == "entries[" \o ToString(i - 1) \o "]"
         IN  { Check(\E j \in 1..(i - 1) : entries[j] # Nil /\ GetUID(entries[j]) = uid,
                     path, "duplicate UID '" \o Sprint(uid) \o "' in group entries")
               \o Check(GetType(entries[i]) \notin {"Event", "Task"},
                        path \o ".@type", "must be 'Event' or 'Task'")
               \o (IF res.kind = "ValidationErrors" THEN Prefixed(i, res.errors) ELSE <<>>)
               : res \in EntryValidate(entries[i]) }

\* the second loop over g.Entries, which calls GetUID on every entry
SelfErrors(g) ==
    LET upTo[i \in 0..Len(g.Entries)] ==
            IF i = 0 THEN <<>>
            ELSE upTo[i - 1]
                 \o Check(GetUID(g.Entries[i]) = g.UID,
                          "entries[" \o ToString(i - 1) \o "]", "group cannot contain itself")
    IN  upTo[Len(g.Entries)]

GroupFieldErrors(g) ==
    Check(g.Type # "Group", "@type", "must be 'Group'")
    \o Check(StrLen(g.UID) = 0, "uid", "is required")
    \o Check(StrLen(g.UID) > MaxUIDLength, "uid",
             "exceeds maximum length of " \o ToString(MaxUIDLength) \o " characters")
    \o Check(g.Title # Nil /\ StrLen(g.Title[1]) > MaxTitleLength, "title",
             "exceeds maximum length of " \o ToString(MaxTitleLength) \o " characters")
    \o Check(g.Description # Nil /\ StrLen(g.Description[1]) > MaxDescriptionLength,
             "description",
             "exceeds maximum length of " \o ToString(MaxDescriptionLength) \o " characters")
    \o Check(g.Sequence # Nil /\ g.Sequence[1] < 0, "sequence", "cannot be negative")
    \o Check(g.Color # Nil /\ ~colorPattern(g.Color[1]), "color", "invalid color format")

\* The outcomes of (g *Group) Validate(): the value returned, for each order
\* in which the maps are ranged over, or the panic of a method called on a
\* nil entry by the second loop.
GroupValidate(gp) ==
    IF gp = Nil
    THEN {[kind |-> "ValidationError",
           errors |-> <<ValidationError("group", "group is nil")>>]}
    ELSE
    LET g == gp[1]
        n == Len(g.Entries)
        upTo[i \in 0..n] ==
            IF i = 0 THEN {<<>>} ELSE Concat(upTo[i - 1], EntryErrors(g.Entries, i))
    IN  IF \E i \in 1..n : g.Entries[i] = Nil
        THEN {[kind |-> "panic", errors |-> <<>>]}
        ELSE { Returned(errors) :
                 errors \in Concat({GroupFieldErrors(g)},
                            Concat(RangeOver(DOMAIN g.Links,
                                     [id \in DOMAIN g.Links |-> validateLink(id, g.Links[id])]),
                            Concat(upTo[n], {SelfErrors(g)}))) }

(***************************************************************************)
(* The group's machine: a group is built, entries are added and removed,   *)
(* fields are assigned by the caller, and the group is validated.  A panic *)
(* ends the run.                                                           *)
(***************************************************************************)
TextG == <<"g">>

\* entries: events and tasks that share a UID with each other or with the
\* group, an invalid event, an event whose location holds a link without
\* href, an event whose @type was never set, and the nil interface value
EntrySamples ==
    {Nil,
     Entry("Event", Ptr([ZeroEvent EXCEPT !.UID = Str(<<"c">>, 0)])),
     Entry("Event", NewEvent(Str(TextA, 0), Str(TextA, 0), SomeTime)),
     Entry("Event", NewEvent(Str(TextG, 0), Str(TextA, 0), SomeTime)),
     Entry("Event", ExampleEvent),
     Entry("Event", Ptr([NewEvent(Str(<<"b">>, 0), Str(TextA, 0), SomeTime)[1] EXCEPT
                           !.Locations = [id \in {"l1"} |->
                              Ptr([ZeroLocation EXCEPT
                                     !.Links = [k \in {"k1"} |-> NewLink(<<>>)]])]])),
     Entry("Task", NewTask(Str(TextA, 0), Str(TextA, 0), SomeTime)),
     Entry("Task", Ptr([NewTask(Str(TextG, 0), Str(TextA, 0), SomeTime)[1] EXCEPT
                          !.PercentComplete = Ptr(101)]))}

GroupFieldSamples ==
    {<<"UID", Str(<<>>, 0)>>, <<"Sequence", Nil>>, <<"Color", Ptr(<<"#", "f", "f">>)>>}
    \cup { <<"Entries", <<a, b>>>> : a \in EntrySamples, b \in EntrySamples }

GroupInit ==
    /\ group \in {Nil, NewGroup(Str(TextG, 0), Str(TextA, 0), SomeTime)}
    /\ gpc = "built"
    /\ gres = NotValidated
    /\ gedits = 0

GroupIdle ==
    /\ group = Nil
    /\ gpc = "idle"
    /\ gres = NotValidated
    /\ gedits = 0

GroupEdited(g) ==
    /\ group' = Ptr(g)
    /\ gedits' = gedits + 1
    /\ UNCHANGED <<gpc, gres, lastNow>>
    /\ UNCHANGED notGroup

GroupCanEdit == gpc = "built" /\ group # Nil /\ gedits < MaxEdits

\* g.<field> = value, by the caller: a slice literal is not nil, and
\* "g.Entries = nil" is
GroupSetField ==
    /\ GroupCanEdit
    /\ \/ \E fv \in GroupFieldSamples :
            GroupEdited([group[1] EXCEPT ![fv[1]] = fv[2],
                                         !.EntriesNil = (fv[1] # "Entries") /\ @])
       \/ GroupEdited([group[1] EXCEPT !.Entries = <<>>, !.EntriesNil = TRUE])

\* the 1-based positions of the entries of g that are nil, and of those
\* whose UID is uid among the entries before the first nil one
NilAt(g) == { i \in DOMAIN g.Entries : g.Entries[i] = Nil }
\* (a variant that finds nothing)
FoundAt_none(g, uid) == {}

FoundAt(g, uid) ==
    { i \in DOMAIN g.Entries : /\ \A j \in 1..i : g.Entries[j] # Nil
                               /\ GetUID(g.Entries[i]) = uid }

\* err := g.AddEntry(entry)
AddEntry ==
    /\ GroupCanEdit
    /\ \E entry \in EntrySamples :
         LET g == group[1]
         IN  IF entry = Nil \/ GetType(entry) \notin {"Event", "Task"}
                \/ FoundAt(g, GetUID(entry)) # {}
             THEN /\ gres' = [kind |-> "error", errors |-> <<>>]
                  /\ UNCHANGED <<group, gpc, lastNow>>
             ELSE IF NilAt(g) # {}
             THEN /\ gres' = [kind |-> "panic", errors |-> <<>>]
                  /\ gpc' = "panicked"
                  /\ UNCHANGED <<group, lastNow>>
             ELSE \E now \in Now :
                    /\ group' = Ptr(Touch([g EXCEPT !.Entries = Append(@, entry),
                                                  !.EntriesNil = FALSE], now))
                    /\ lastNow' = now
                    /\ gres' = NoError
                    /\ UNCHANGED gpc
    /\ gedits' = gedits + 1
    /\ UNCHANGED notGroup

\* err := g.RemoveEntry(uid)
RemoveEntry ==
    /\ GroupCanEdit
    /\ \E uid \in {Str(TextA, 0), Str(TextG, 0)} :
         LET g == group[1]
             found == FoundAt(g, uid)
         IN  IF found # {}
             THEN LET i == CHOOSE k \in found : \A j \in found : k <= j
                  IN  \E now \in Now :
                        /\ group' = Ptr(Touch([g EXCEPT !.Entries =
                                                  SubSeq(@, 1, i - 1) \o SubSeq(@, i + 1, Len(@)),
                                                  !.EntriesNil = FALSE],
                                              now))
                        /\ lastNow' = now
                        /\ gres' = NoError
                        /\ UNCHANGED gpc
             ELSE IF NilAt(g) # {}
             THEN /\ gres' = [kind |-> "panic", errors |-> <<>>]
                  /\ gpc' = "panicked"
                  /\ UNCHANGED <<group, lastNow>>
             ELSE /\ gres' = [kind |-> "error", errors |-> <<>>]
                  /\ UNCHANGED <<group, gpc, lastNow>>
    /\ gedits' = gedits + 1
    /\ UNCHANGED notGroup

GroupAddKeyword ==
    /\ GroupCanEdit
    /\ GroupEdited([group[1] EXCEPT !.Keywords = MapSet(@, TextA, TRUE)])

GroupAddCategory ==
    /\ GroupCanEdit
    /\ GroupEdited([group[1] EXCEPT !.Categories = MapSet(@, TextA, TRUE)])

GroupAddLink ==
    /\ GroupCanEdit
    /\ \E link \in {NewLink(TextOkURL), NewLink(<<>>)} :
         GroupEdited([group[1] EXCEPT !.Links = MapSet(@, "k1", link)])

\* g.Touch()
GroupTouch ==
    /\ GroupCanEdit
    /\ \E now \in Now :
         /\ group' = Ptr(Touch(group[1], now))
         /\ lastNow' = now
    /\ gedits' = gedits + 1
    /\ UNCHANGED <<gpc, gres>>
    /\ UNCHANGED notGroup

\* "if g.Entries == nil { g.Entries = []CalendarObject{} }" in Validate
Allocated(gp) == IF gp = Nil THEN gp ELSE Ptr([gp[1] EXCEPT !.EntriesNil = FALSE])

\* err := g.Validate()
CallGroupValidate ==
    /\ gpc = "built"
    /\ \E err \in GroupValidate(group) : gres' = err
    /\ group' = Allocated(group)
    /\ gpc' = "validated"
    /\ UNCHANGED <<gedits, lastNow>>
    /\ UNCHANGED notGroup

GroupNext ==
    \/ GroupSetField
    \/ AddEntry
    \/ RemoveEntry
    \/ GroupAddKeyword
    \/ GroupAddCategory
    \/ GroupAddLink
    \/ GroupTouch
    \/ CallGroupValidate

(***************************************************************************)
(* String functions of the bridge (package strings, package sort).         *)
(***************************************************************************)
\* strings.ReplaceAll(s, old, new) for a non-empty old
RECURSIVE ReplaceAll(_, _, _)
ReplaceAll(s, old, new) ==
    IF Len(s) < Len(old) THEN s
    ELSE IF SubSeq(s, 1, Len(old)) = old
         THEN new \o ReplaceAll(SubSeq(s, Len(old) + 1, Len(s)), old, new)
         ELSE <<s[1]>> \o ReplaceAll(Tail(s), old, new)

\* strings.Split(s, c) for a one-character separator
RECURSIVE Split(_, _)
Split(s, c) ==
    LET i == Index(s, c)
    IN  IF i = 0 THEN <<s>> ELSE <<Before(s, i)>> \o Split(After(s, i), c)

\* strings.Join(list, c)
RECURSIVE Join(_, _)
Join(list, c) ==
    IF list = <<>> THEN <<>>
    ELSE IF Len(list) = 1 THEN list[1]
    ELSE list[1] \o <<c>> \o Join(Tail(list), c)

WhiteSpace == {" ", "\t", "\n", "\r"}

\* strings.TrimSpace(s)
RECURSIVE TrimSpace(_)
TrimSpace(s) ==
    IF s = <<>> THEN s
    ELSE IF s[1] \in WhiteSpace THEN TrimSpace(Tail(s))
    ELSE IF s[Len(s)] \in WhiteSpace THEN TrimSpace(Before(s, Len(s)))
    ELSE s

\* the byte of a character of the category texts
CharCode(c) ==
    CASE c = " " -> 32 [] c = "," -> 44 [] c = "a" -> 97 [] c = "b" -> 98

\* a < b for Go strings: byte by byte, a proper prefix first
RECURSIVE StringLess(_, _)
StringLess(a, b) ==
    IF b = <<>> THEN FALSE
    ELSE IF a = <<>> THEN TRUE
    ELSE IF a[1] # b[1] THEN CharCode(a[1]) < CharCode(b[1])
    ELSE StringLess(Tail(a), Tail(b))

\* sort.Strings of the strings of a set
RECURSIVE SortStrings(_)
SortStrings(S) ==
    IF S = {} THEN <<>>
    ELSE LET least == CHOOSE x \in S : \A y \in S : x = y \/ StringLess(x, y)
         IN  <<least>> \o SortStrings(S \ {least})

\* strings.ToUpper and strings.ToLower, on the words of the model
ToUpper(w) ==
    CASE w = "confirmed" -> "CONFIRMED" [] w = "tentative" -> "TENTATIVE"
      [] w = "cancelled" -> "CANCELLED" [] w = "public" -> "PUBLIC"
      [] w = "private" -> "PRIVATE" [] w = "secret" -> "SECRET"
      [] w = "confidential" -> "CONFIDENTIAL" [] w = "accepted" -> "ACCEPTED"
      [] w = "declined" -> "DECLINED" [] w = "needs-action" -> "NEEDS-ACTION"
      [] w = "chair" -> "CHAIR" [] OTHER -> w

ToLower(w) ==
    CASE w = "CONFIRMED" -> "confirmed" [] w = "TENTATIVE" -> "tentative"
      [] w = "CANCELLED" -> "cancelled" [] w = "PUBLIC" -> "public"
      [] w = "PRIVATE" -> "private" [] w = "SECRET" -> "secret"
      [] w = "CONFIDENTIAL" -> "confidential" [] w = "ACCEPTED" -> "accepted"
      [] w = "DECLINED" -> "declined" [] w = "NEEDS-ACTION" -> "needs-action"
      [] w = "CHAIR" -> "chair" [] OTHER -> w

(***************************************************************************)
(* Date-time values of the text format.  The digits of a value stand for   *)
(* what they denote: the day, and the second of the day unless the value   *)
(* is a date only; z says whether a Z is written after them.  A value that *)
(* none of the layouts of parseICalDateTime parses is malformed.           *)
(***************************************************************************)
ICalTime(date, clock, z) == [date |-> date, clock |-> clock, z |-> z, malformed |-> FALSE]
MalformedTime == [date |-> 0, clock |-> Nil, z |-> FALSE, malformed |-> TRUE]

\* t.Format("20060102T150405Z"): the wall clock of t, then a literal Z
FormatZ(t) == ICalTime(Wall(t) \div SecondsPerDay, Ptr(Wall(t) % SecondsPerDay), TRUE)

\* t.UTC()
UTC(t) == Time(t.sec, t.nsec, 0)

\* a property of a component
Property(value, params) == [Value |-> value, Params |-> params]
NoParams == <<>>

\* VEvent.SetStartAt(t) of the text-format library: DTSTART is t.UTC() in the
\* layout "20060102T150405Z"
SetStartAt(t) == Property(FormatZ(UTC(t)), NoParams)

\* VEvent.SetAllDayStartAt(t) of the text-format library: DTSTART;VALUE=DATE
\* is the date of t in its own zone
SetAllDayStartAt(t) ==
    Property(ICalTime(Wall(t) \div SecondsPerDay, Nil, FALSE), [VALUE |-> "DATE"])

\* parseICalDateTime(prop) for a property without TZID parameter
parseICalDateTime(prop) ==
    LET value == prop.Value
        isAllDay == "VALUE" \in DOMAIN prop.Params /\ prop.Params["VALUE"] = "DATE"
        timezone == IF value.z THEN "UTC" ELSE ""
        t == IF value.malformed THEN ZeroTime
             ELSE IF value.clock # Nil
             THEN Time(value.date * SecondsPerDay + value.clock[1], 0, 0)
             ELSE Time(value.date * SecondsPerDay, 0, 0)
    IN  [t |-> t, isAllDay |-> isAllDay, timezone |-> timezone]

\* t.Sub(u) for times of whole seconds
Sub(t, u) == (t.sec - u.sec) * Second

(***************************************************************************)
(* The bridge's own duration parser (convert/ical/converter.go).  It bears *)
(* the name parseISO8601Duration in package ical and is reached through    *)
(* parseICalDuration.                                                      *)
(***************************************************************************)
\* One "if idx := strings.Index(part, unit); idx > 0 { ... }" block
ScanInt(part, letter, unit) ==
    LET idx == Index(part, letter)
    IN  IF idx > 1
        THEN [add |-> parseInt(Before(part, idx)) * unit, rest |-> After(part, idx)]
        ELSE [add |-> 0, rest |-> part]

parseICalDuration(value) ==
    IF ~HasPrefix(value, "P") THEN 0
    ELSE
    LET parts == Split(Tail(value), "T")
        date == IF parts[1] # <<>> THEN ScanInt(parts[1], "D", Day).add ELSE 0
        time == IF Len(parts) > 1 /\ parts[2] # <<>>
                THEN LET h == ScanInt(parts[2], "H", Hour)
                         m == ScanInt(h.rest, "M", Minute)
                         sec == ScanInt(m.rest, "S", Second)
                     IN  h.add + m.add + sec.add
                ELSE 0
    IN  date + time

(***************************************************************************)
(* By-day tokens (types.go): FormatDayOfWeek and ParseNDay.                *)
(***************************************************************************)
LowerLetters == <<"a", "b", "c", "d", "e", "f", "g", "h", "i", "j", "k", "l", "m",
                  "n", "o", "p", "q", "r", "s", "t", "u", "v", "w", "x", "y", "z">>
UpperLetters == <<"A", "B", "C", "D", "E", "F", "G", "H", "I", "J", "K", "L", "M",
                  "N", "O", "P", "Q", "R", "S", "T", "U", "V", "W", "X", "Y", "Z">>

\* strings.ToUpper and strings.ToLower of a text, character by character
UpperText(s) ==
    [i \in DOMAIN s |->
       IF s[i] \in Lower THEN UpperLetters[CHOOSE k \in 1..26 : LowerLetters[k] = s[i]]
       ELSE s[i]]
LowerText(s) ==
    [i \in DOMAIN s |->
       IF s[i] \in Upper THEN LowerLetters[CHOOSE k \in 1..26 : UpperLetters[k] = s[i]]
       ELSE s[i]]

\* the day codes as texts, with the names the switch also takes
DayCodes == {<<"m", "o">>, <<"t", "u">>, <<"w", "e">>, <<"t", "h">>, <<"f", "r">>,
             <<"s", "a">>, <<"s", "u">>}
DayNames == {<<"M", "O", "N", "D", "A", "Y">>, <<"T", "U", "E", "S", "D", "A", "Y">>,
             <<"W", "E", "D", "N", "E", "S", "D", "A", "Y">>,
             <<"T", "H", "U", "R", "S", "D", "A", "Y">>, <<"F", "R", "I", "D", "A", "Y">>,
             <<"S", "A", "T", "U", "R", "D", "A", "Y">>, <<"S", "U", "N", "D", "A", "Y">>}

\* FormatDayOfWeek(day)
FormatDayOfWeek(day) ==
    LET up == UpperText(day)
    IN  IF up \in DayNames \/ LowerText(up) \in DayCodes
        THEN LowerText(SubSeq(up, 1, 2))
        ELSE LowerText(day)

\* fmt.Sscanf(numPart, "%d", &num): whether one integer was scanned, and it
Sscanf(s) ==
    LET signed == Len(s) > 0 /\ s[1] \in {"+", "-"}
        body == IF signed THEN Tail(s) ELSE s
        n == Span(body, Digits)
    IN  [ok |-> n > 0, num |-> parseInt(s)]

NDayError(message) == [err |-> message, nday |-> Nil]

\* ParseNDay(value): the *NDay, its Day a string as in the rules of the
\* validator, and the error, "" for nil
ParseNDay(value) ==
    IF Len(value) < 2 THEN NDayError("invalid day value")
    ELSE
    LET prefixed == Len(value) > 2
        numPart == IF prefixed THEN SubSeq(value, 1, Len(value) - 2) ELSE <<>>
        dayPart == IF prefixed THEN SubSeq(value, Len(value) - 1, Len(value)) ELSE value
        validChars == \A i \in DOMAIN numPart :
                         (i = 1 /\ numPart[i] = "-") \/ numPart[i] \in Digits
        scan == Sscanf(numPart)
        formatted == FormatDayOfWeek(dayPart)
    IN  IF prefixed /\ ~validChars
        THEN NDayError("invalid occurrence format: numeric prefix must be integer")
        ELSE IF prefixed /\ ~scan.ok
        THEN NDayError("invalid occurrence format: failed to parse as integer")
        ELSE IF formatted \notin DayCodes THEN NDayError("invalid day")
        ELSE [err |-> "",
              nday |-> Ptr([Day |-> formatted[1] \o formatted[2],
                            NthOfPeriod |-> IF prefixed THEN Ptr(scan.num) ELSE Nil])]

(***************************************************************************)
(* The machine of the by-day tokens: a token is handed to ParseNDay.       *)
(***************************************************************************)
TokenAlphabet == {"-", "+", "1", "2", "m", "O", "F", "r", "x"}
Tokens == SeqsUpTo(TokenAlphabet, MaxTokenLen)

NotScanned == [err |-> "", nday |-> Nil, none |-> TRUE]

NDayInit ==
    /\ tok \in Tokens
    /\ npc = "input"
    /\ nres = NotScanned

NDayIdle ==
    /\ tok = <<>>
    /\ npc = "idle"
    /\ nres = NotScanned

\* nday, err := ParseNDay(tok)
CallParseNDay ==
    /\ npc = "input"
    /\ nres' = ParseNDay(tok)
    /\ npc' = "parsed"
    /\ UNCHANGED tok
    /\ UNCHANGED notNDay

NDayNext == CallParseNDay

(***************************************************************************)
(* The bridge (convert/ical/converter.go).  A component is the function    *)
(* from the names of its properties to them: the text-format library       *)
(* hands the bridge a parsed property tree and takes one back.  The        *)
(* events exported carry no recurrence rules, for which                    *)
(* convertRecurrenceRules does nothing.  The ORGANIZER properties of a     *)
(* component are kept as the list of them, in the order they were          *)
(* appended, and its ATTENDEE properties as the set of them: they bear     *)
(* different addresses, so that their order changes nothing in the import. *)
(***************************************************************************)
\* strconv of an int, as the library writes SEQUENCE
Itoa(n) == IF n < 0 THEN <<"-">> \o IntToDigits(-n) ELSE IntToDigits(n)

\* text as a string without filler, and the text of such a string
Text(t) == Str(t, 0)

\* the escaping of a description on export
EscapeDescription(desc) ==
    LET d1 == ReplaceAll(desc.text, <<"\\">>, <<"\\", "\\">>)
        d2 == ReplaceAll(d1, <<";">>, <<"\\", ";">>)
        d3 == ReplaceAll(d2, <<",">>, <<"\\", ",">>)
        d4 == ReplaceAll(d3, <<"\n">>, <<"\\", "n">>)
    IN  Str(d4, desc.pad)

\* the handling of escaped characters in a description on import
UnescapeDescription(desc) ==
    LET d1 == ReplaceAll(desc.text, <<"\\", "n">>, <<"\n">>)
        d2 == ReplaceAll(d1, <<"\\", ",">>, <<",">>)
        d3 == ReplaceAll(d2, <<"\\", ";">>, <<";">>)
        d4 == ReplaceAll(d3, <<"\\", "\\">>, <<"\\">>)
    IN  Str(d4, desc.pad)

\* for _, location := range event.Locations { if location.Name != nil {
\* SetLocation; break } }: the names it may set, "none", or "panic" on
\* reaching a nil *Location
RECURSIVE FirstLocation(_, _)
FirstLocation(locations, keys) ==
    IF keys = {} THEN {[kind |-> "none"]}
    ELSE UNION { IF locations[k] = Nil THEN {[kind |-> "panic"]}
                 ELSE IF locations[k][1].Name # Nil
                      THEN {[kind |-> "set", value |-> locations[k][1].Name[1]]}
                      ELSE FirstLocation(locations, keys \ {k}) : k \in keys }

\* for _, link := range event.Links { SetURL(link.Href); break }
FirstLink(links) ==
    IF DOMAIN links = {} THEN {[kind |-> "none"]}
    ELSE { IF links[k] = Nil THEN [kind |-> "panic"]
           ELSE [kind |-> "set", value |-> links[k][1].Href] : k \in DOMAIN links }

\* One block of convertJSCalEventToICal: the properties of the component
\* after the block that sets property n, from those before it
ExportStep(n, e, props) ==
    CASE n = "SUMMARY" ->
           IF e.Title # Nil THEN MapSet(props, n, Property(e.Title[1], NoParams)) ELSE props
      [] n = "DESCRIPTION" ->
           IF e.Description # Nil
           THEN MapSet(props, n, Property(EscapeDescription(e.Description[1]), NoParams))
           ELSE props
      [] n = "DTSTART" ->
           IF e.Start # Nil
           THEN MapSet(props, n,
                       IF e.ShowWithoutTime # Nil /\ e.ShowWithoutTime[1]
                       THEN SetAllDayStartAt(e.Start[1])
                       ELSE SetStartAt(e.Start[1]))
           ELSE props
      [] n = "DURATION" ->
           IF e.Duration # Nil /\ e.Duration[1] # <<>>
           THEN MapSet(props, n, Property(e.Duration[1], NoParams)) ELSE props
      [] n = "CREATED" ->
           IF e.Created # Nil
           THEN MapSet(props, n, Property(FormatZ(e.Created[1]), NoParams)) ELSE props
      [] n = "LAST-MODIFIED" ->
           IF e.Updated # Nil
           THEN MapSet(props, n, Property(FormatZ(e.Updated[1]), NoParams)) ELSE props
      [] n = "SEQUENCE" ->
           IF e.Sequence # Nil
           THEN MapSet(props, n, Property(Itoa(e.Sequence[1]), NoParams)) ELSE props
      [] n = "STATUS" ->
           IF e.Status # Nil
           THEN MapSet(props, n, Property(ToUpper(e.Status[1]), NoParams)) ELSE props
      [] n = "CATEGORIES" ->
           IF DOMAIN e.Categories # {}
           THEN MapSet(props, n,
                       Property(Join(SortStrings(DOMAIN e.Categories), ","), NoParams))
           ELSE props
      [] n = "TRANSP" ->
           IF e.FreeBusyStatus # Nil
           THEN MapSet(props, n,
                       Property(IF e.FreeBusyStatus[1] = "free"
                                THEN "TRANSPARENT" ELSE "OPAQUE", NoParams))
           ELSE props
      [] n = "CLASS" ->
           IF e.Privacy # Nil
           THEN MapSet(props, n,
                       Property(IF ToUpper(e.Privacy[1]) = "PRIVATE"
                                THEN "CONFIDENTIAL" ELSE ToUpper(e.Privacy[1]), NoParams))
           ELSE props

\* the blocks of convertJSCalEventToICal before the loops over the maps, in
\* the order of the code
ExportSteps ==
    <<"SUMMARY", "DESCRIPTION", "DTSTART", "DURATION", "CREATED", "LAST-MODIFIED",
      "SEQUENCE", "STATUS", "CATEGORIES", "TRANSP", "CLASS">>

RECURSIVE ExportFrom(_, _, _)
ExportFrom(i, e, props) ==
    IF i > Len(ExportSteps) THEN props
    ELSE ExportFrom(i + 1, e, ExportStep(ExportSteps[i], e, props))

\* ics.NewEvent(uid) and the DTSTAMP set when the clock reads now
NewVEvent(uid, now) ==
    [n \in {"UID", "DTSTAMP"} |->
       IF n = "UID" THEN Property(uid, NoParams) ELSE Property(FormatZ(now), NoParams)]

\* the component with the location and the link the loops set
WithFirst(props, location, link) ==
    LET withLocation == IF location.kind = "set"
                        THEN MapSet(props, "LOCATION", Property(location.value, NoParams))
                        ELSE props
    IN  IF link.kind = "set"
        THEN MapSet(withLocation, "URL", Property(link.value, NoParams))
        ELSE withLocation

\* the keys of the participants of the model bear no "mailto:" prefix
Mailto(email) == "mailto:" \o email

\* the parameters of the properties written for a participant
NameParams(v) == IF v.Name # Nil THEN [n \in {"CN"} |-> v.Name[1]] ELSE NoParams
AttendeeParams(v) ==
    LET role == IF "chair" \in DOMAIN v.Roles /\ v.Roles["chair"] THEN "CHAIR"
                ELSE IF "optional" \in DOMAIN v.Roles /\ v.Roles["optional"]
                THEN "OPT-PARTICIPANT"
                ELSE IF "informational" \in DOMAIN v.Roles /\ v.Roles["informational"]
                THEN "NON-PARTICIPANT"
                ELSE "REQ-PARTICIPANT"
        names == (IF v.Name # Nil THEN {"CN"} ELSE {})
                 \cup (IF v.ParticipationStatus # Nil THEN {"PARTSTAT"} ELSE {})
                 \cup (IF v.Roles # EmptyMap THEN {"ROLE"} ELSE {})
    IN  [n \in names |->
           IF n = "CN" THEN v.Name[1]
           ELSE IF n = "PARTSTAT" THEN ToUpper(v.ParticipationStatus[1])
           ELSE role]

\* the sequences that list the elements of a set, each once
RECURSIVE Orders(_)
Orders(S) ==
    IF S = {} THEN {<<>>}
    ELSE UNION { { <<x>> \o rest : rest \in Orders(S \ {x}) } : x \in S }

\* convertParticipants(event, vevent): the properties with the organizers
\* and the attendees added, for each order of the range over the map, or
\* the panic of "participant.Roles" on a nil participant
convertParticipants(e, props) ==
    LET ids == DOMAIN e.Participants
        owners == { id \in ids : /\ "owner" \in DOMAIN e.Participants[id][1].Roles
                                 /\ e.Participants[id][1].Roles["owner"] }
        Organizer(id) == Property(Mailto(id), NameParams(e.Participants[id][1]))
        attendees == { Property(Mailto(id), AttendeeParams(e.Participants[id][1])) : id \in ids }
        withAttendees == IF ids = {} THEN props ELSE MapSet(props, "ATTENDEE", attendees)
    IN  IF \E id \in ids : e.Participants[id] = Nil THEN {[kind |-> "panic"]}
        ELSE IF owners = {} THEN {[kind |-> "vevent", Properties |-> withAttendees]}
        ELSE { [kind |-> "vevent",
                Properties |-> MapSet(withAttendees, "ORGANIZER",
                                      [i \in DOMAIN order |-> Organizer(order[i])])] :
               order \in Orders(owners) }

\* what convertJSCalEventToICal(event) may do when the clock reads now: the
\* components it may return, or a panic
convertJSCalEventToICal(ev, now) ==
    IF ev = Nil THEN {[kind |-> "panic"]}
    ELSE
    LET props == ExportFrom(1, ev[1], NewVEvent(ev[1].UID, now))
    IN  UNION { IF location.kind = "panic" \/ link.kind = "panic" THEN {[kind |-> "panic"]}
                ELSE convertParticipants(ev[1], WithFirst(props, location, link)) :
                location \in FirstLocation(ev[1].Locations, DOMAIN ev[1].Locations),
                link \in FirstLink(ev[1].Links) }

\* The value of an RRULE property is the list of what
\* strings.SplitN(part, "=", 2) yields for each part between semicolons: one
\* text, or a key and a value.  The value of UNTIL is a date-time value of
\* the text format, every other one a text.
\*
\* the days of "BYDAY": ParseNDay of each token between commas, those that
\* fail left out
RECURSIVE ByDayOf(_)
ByDayOf(days) ==
    IF days = <<>> THEN <<>>
    ELSE LET r == ParseNDay(TrimSpace(Head(days)))
         IN  (IF r.err = "" THEN <<r.nday[1]>> ELSE <<>>) \o ByDayOf(Tail(days))

\* one round of the loop of parseRRule over the parts
RRulePart(rule, kv) ==
    IF Len(kv) # 2 THEN rule
    ELSE
    LET key == UpperText(TrimSpace(kv[1]))
        value == kv[2]
    IN  IF key = <<"F", "R", "E", "Q">>
        THEN [rule EXCEPT !.Frequency = Sprint(Text(LowerText(TrimSpace(value))))]
        ELSE IF key = <<"I", "N", "T", "E", "R", "V", "A", "L">>
        THEN IF parseInt(TrimSpace(value)) > 0
             THEN [rule EXCEPT !.Interval = Ptr(parseInt(TrimSpace(value)))] ELSE rule
        ELSE IF key = <<"C", "O", "U", "N", "T">>
        THEN IF parseInt(TrimSpace(value)) > 0
             THEN [rule EXCEPT !.Count = Ptr(parseInt(TrimSpace(value)))] ELSE rule
        ELSE IF key = <<"U", "N", "T", "I", "L">>
        THEN LET until == parseICalDateTime(Property(value, NoParams)).t
             IN  IF ~IsZero(until) THEN [rule EXCEPT !.Until = NewLocalDateTime(until)]
                 ELSE rule
        ELSE IF key = <<"B", "Y", "D", "A", "Y">>
        THEN [rule EXCEPT !.ByDay = @ \o ByDayOf(Split(TrimSpace(value), ","))]
        ELSE rule

\* parseRRule(rruleValue): the rule, which is never nil
RECURSIVE RRuleFrom(_, _)
RRuleFrom(parts, rule) ==
    IF parts = <<>> THEN rule ELSE RRuleFrom(Tail(parts), RRulePart(rule, Head(parts)))

parseRRule(rruleValue) ==
    RRuleFrom(rruleValue, [ZeroRecurrenceRule EXCEPT !.Type = "RecurrenceRule"])

\* the start block of convertICalEventToJSCal
ImportStart(prop, e) ==
    LET start == parseICalDateTime(prop)
    IN  IF ~IsZero(start.t)
        THEN [e EXCEPT
                !.Start = Ptr(start.t),
                !.ShowWithoutTime = IF start.isAllDay THEN Ptr(TRUE) ELSE @,
                !.TimeZone = IF start.timezone # "" /\ start.timezone # "UTC"
                             THEN Ptr(start.timezone) ELSE @]
        ELSE e

\* the end-time-or-duration block of convertICalEventToJSCal
ImportDuration(vevent, e) ==
    IF "DTEND" \in DOMAIN vevent
    THEN LET endTime == parseICalDateTime(vevent["DTEND"]).t
         IN  IF ~IsZero(endTime) /\ e.Start # Nil
             THEN [e EXCEPT !.Duration = Ptr(formatISO8601Duration(Sub(endTime, e.Start[1])))]
             ELSE e
    ELSE IF "DURATION" \in DOMAIN vevent
         THEN [e EXCEPT !.Duration =
                 Ptr(formatISO8601Duration(parseICalDuration(vevent["DURATION"].Value)))]
         ELSE e

\* the block of convertICalEventToJSCal that reads the time of property n
\* into Created or Updated
ImportTime(prop, field, e) ==
    LET t == parseICalDateTime(prop).t
    IN  IF ~IsZero(t) THEN [e EXCEPT ![field] = Ptr(t)] ELSE e

ImportCategories(value) ==
    LET cats == Split(value, ",")
    IN  [c \in { TrimSpace(cats[i]) : i \in DOMAIN cats } |-> TRUE]

\* One block of convertICalEventToJSCal: the event after the block that
\* reads property n, from the event before it
\* strings.TrimPrefix(value, "mailto:") for the addresses of the model, and
\* the address as a text
TrimMailto(value) ==
    IF \E id \in ParticipantIds : value = Mailto(id)
    THEN CHOOSE id \in ParticipantIds : value = Mailto(id)
    ELSE value
AddressText(email) ==
    CASE email = "p1" -> <<"p", "1">> [] email = "p2" -> <<"p", "2">> [] OTHER -> <<>>

\* the roles an attendee property adds to those of the participant
AttendeeRoles(prop, roles) ==
    IF "ROLE" \notin DOMAIN prop.Params THEN roles
    ELSE LET role == ToUpper(prop.Params["ROLE"])
         IN  IF role = "CHAIR" THEN MapSet(MapSet(roles, "chair", TRUE), "attendee", TRUE)
             ELSE IF role = "OPT-PARTICIPANT" THEN MapSet(roles, "optional", TRUE)
             ELSE IF role = "NON-PARTICIPANT" THEN MapSet(roles, "informational", TRUE)
             ELSE MapSet(roles, "attendee", TRUE)

\* processParticipants(vevent, event): the participant of the first
\* organizer property, then one for each attendee property, the one of the
\* organizer again when the address is the same
processParticipants(vevent, e) ==
    LET organizers == IF "ORGANIZER" \in DOMAIN vevent THEN vevent["ORGANIZER"] ELSE <<>>
        attendees == IF "ATTENDEE" \in DOMAIN vevent THEN vevent["ATTENDEE"] ELSE {}
        organizer == Head(organizers)
        who == IF organizers # <<>> THEN {TrimMailto(organizer.Value)} ELSE {}
        FromOrganizer(email) ==
            [NewParticipant(<<>>, AddressText(email))[1] EXCEPT
               !.Roles = [r \in {"owner", "attendee"} |-> TRUE],
               !.Name = IF "CN" \in DOMAIN organizer.Params
                        THEN Ptr(organizer.Params["CN"]) ELSE @]
        FromAttendee(prop, email) ==
            LET known == IF email \in who \cup DOMAIN e.Participants
                         THEN IF email \in who THEN FromOrganizer(email)
                              ELSE e.Participants[email][1]
                         ELSE NewParticipant(<<>>, AddressText(email))[1]
            IN  [known EXCEPT
                   !.Name = IF "CN" \in DOMAIN prop.Params
                            THEN Ptr(prop.Params["CN"]) ELSE @,
                   !.ParticipationStatus =
                       IF "PARTSTAT" \in DOMAIN prop.Params
                       THEN Ptr(ToLower(prop.Params["PARTSTAT"])) ELSE @,
                   !.Roles = AttendeeRoles(prop, @)]
        emails == who \cup { TrimMailto(prop.Value) : prop \in attendees }
    IN  IF emails = {} THEN e
        ELSE [e EXCEPT !.Participants =
                [email \in DOMAIN @ \cup emails |->
                   IF \E prop \in attendees : TrimMailto(prop.Value) = email
                   THEN Ptr(FromAttendee(CHOOSE prop \in attendees :
                                            TrimMailto(prop.Value) = email, email))
                   ELSE IF email \in who THEN Ptr(FromOrganizer(email))
                   ELSE @[email]]]

ImportStep(n, vevent, e) ==
    IF n = "DURATION" THEN ImportDuration(vevent, e)
    ELSE IF n = "ATTENDEE" THEN processParticipants(vevent, e)
    ELSE IF n \notin DOMAIN vevent THEN e
    ELSE
    CASE n = "SUMMARY" -> [e EXCEPT !.Title = Ptr(vevent[n].Value)]
      [] n = "DESCRIPTION" ->
           [e EXCEPT !.Description = Ptr(UnescapeDescription(vevent[n].Value))]
      [] n = "DTSTART" -> ImportStart(vevent[n], e)
      [] n = "CREATED" -> ImportTime(vevent[n], "Created", e)
      [] n = "LAST-MODIFIED" -> ImportTime(vevent[n], "Updated", e)
      [] n = "SEQUENCE" ->
           IF parseInt(vevent[n].Value) >= 0
           THEN [e EXCEPT !.Sequence = Ptr(parseInt(vevent[n].Value))] ELSE e
      [] n = "STATUS" -> [e EXCEPT !.Status = Ptr(ToLower(vevent[n].Value))]
      [] n = "CATEGORIES" -> [e EXCEPT !.Categories = ImportCategories(vevent[n].Value)]
      [] n = "LOCATION" ->
           [e EXCEPT !.Locations = MapSet(@, "1", NewLocation(vevent[n].Value))]
      [] n = "TRANSP" ->
           [e EXCEPT !.FreeBusyStatus =
                        Ptr(IF ToUpper(vevent[n].Value) = "TRANSPARENT" THEN "free" ELSE "busy")]
      [] n = "CLASS" ->
           [e EXCEPT !.Privacy =
                        Ptr(IF ToLower(vevent[n].Value) = "confidential"
                            THEN "private" ELSE ToLower(vevent[n].Value))]
      [] n = "URL" -> [e EXCEPT !.Links = MapSet(@, "1", NewLink(vevent[n].Value))]
      [] n = "RRULE" ->
           [e EXCEPT !.RecurrenceRules = Append(@, parseRRule(vevent[n].Value))]

\* the blocks of convertICalEventToJSCal after the UID, in the order of the
\* code, processParticipants and processRecurrenceRules the last
ImportSteps ==
    <<"SUMMARY", "DESCRIPTION", "DTSTART", "DURATION", "CREATED", "LAST-MODIFIED",
      "SEQUENCE", "STATUS", "CATEGORIES", "LOCATION", "TRANSP", "CLASS", "URL",
      "ATTENDEE", "RRULE">>

RECURSIVE ImportFrom(_, _, _)
ImportFrom(i, vevent, e) ==
    IF i > Len(ImportSteps) THEN e
    ELSE ImportFrom(i + 1, vevent, ImportStep(ImportSteps[i], vevent, e))

\* vevent.Id()
Id(vevent) == IF "UID" \in DOMAIN vevent THEN vevent["UID"].Value ELSE Text(<<>>)

\* (a variant that hands back what it built so far along with the error)
convertICalEventToJSCal_partial(vevent) ==
    [err |-> StrLen(Id(vevent)) = 0,
     event |-> Ptr(ImportFrom(1, vevent,
                              [ZeroEvent EXCEPT !.Type = "Event", !.UID = Id(vevent)]))]

\* convertICalEventToJSCal(vevent): the event and whether an error is
\* returned in its place
convertICalEventToJSCal(vevent) ==
    IF StrLen(Id(vevent)) = 0 THEN [err |-> TRUE, event |-> Nil]
    ELSE [err |-> FALSE,
          event |-> Ptr(ImportFrom(1, vevent,
                                   [ZeroEvent EXCEPT !.Type = "Event", !.UID = Id(vevent)]))]

(***************************************************************************)
(* The round trip through the bridge: an event is exported by              *)
(* Converter.Format and the component it produced is imported by           *)
(* Converter.Parse.                                                        *)
(***************************************************************************)
Clock == SomeTime

BaseEvent == NewEvent(Text(<<"u", "1">>), Text(TextA), SomeTime)[1]

DescAlphabet == {"a", "n", "\\", ",", ";", "\n"}
Descriptions == SeqsUpTo(DescAlphabet, MaxDescLen)

\* starts: the zero time, and times built in UTC and in zones two hours
\* east and five hours west of it, one with a fraction of a second
StartSamples ==
    {ZeroTime, Time(100000, 0, 0), Time(100000, 500000000, 0),
     Time(100000, 0, 7200), Time(100000, 0, -18000), Time(129600, 0, 7200)}

CategoryTexts == {<<>>, <<"a">>, <<"b">>, <<"a", ",", "b">>, <<" ", "a">>}
CategorySets ==
    UNION { [S -> BOOLEAN] :
              S \in { X \in SUBSET CategoryTexts : X # {} /\ Cardinality(X) <= MaxCategories } }

\* events that differ from BaseEvent in their other fields
OtherEvents ==
    {[BaseEvent EXCEPT !.Title = Nil, !.Created = Nil, !.Updated = Nil, !.Sequence = Nil],
     [BaseEvent EXCEPT !.UID = Str(TextA, MaxUIDLength), !.Sequence = Ptr(12)],
     [BaseEvent EXCEPT !.Status = Ptr("confirmed"), !.FreeBusyStatus = Ptr("free"),
                       !.Privacy = Ptr("private")],
     [BaseEvent EXCEPT !.Status = Ptr("tentative"), !.FreeBusyStatus = Ptr("busy"),
                       !.Privacy = Ptr("public"), !.Duration = Ptr(<<>>)],
     [BaseEvent EXCEPT !.Locations = [id \in {"l1"} |-> NewLocation(TextA)],
                       !.Links = [id \in {"k1"} |-> NewLink(TextOkURL)]],
     [BaseEvent EXCEPT !.Locations = [id \in {"l1", "l2", "l3"} |->
                                        IF id = "l1" THEN NewLocation(TextA)
                                        ELSE IF id = "l2" THEN NewLocation(<<"b">>)
                                        ELSE Ptr(ZeroLocation)],
                       !.Links = [id \in {"k1", "k2"} |->
                                    IF id = "k1" THEN NewLink(TextOkURL) ELSE NewLink(<<"b">>)]],
     [BaseEvent EXCEPT !.Locations = [id \in {"l1", "l2"} |->
                                        IF id = "l1" THEN NewLocation(TextA) ELSE Nil]],
     [BaseEvent EXCEPT !.Links = [id \in {"k1"} |-> Nil]],
     [BaseEvent EXCEPT !.Participants = [id \in {"p1"} |-> Nil]],
     [BaseEvent EXCEPT !.Participants =
        [id \in {"p1", "p2"} |-> IF id = "p1" THEN NewParticipant(TextA, TextEmail) ELSE Nil]],
     [BaseEvent EXCEPT !.Participants =
        [id \in {"p1", "p2"} |->
           IF id = "p1" THEN NewParticipant(TextA, TextEmail)
           ELSE Ptr([ZeroParticipant EXCEPT
                       !.ParticipationStatus = Ptr("accepted"),
                       !.Roles = [r \in {"owner", "chair"} |-> TRUE]])]],
     [BaseEvent EXCEPT !.Participants =
        [id \in {"p1", "p2"} |->
           Ptr([ZeroParticipant EXCEPT !.Name = Ptr(<<id>>),
                                       !.Roles = [r \in {"owner"} |-> TRUE]])]],
     [BaseEvent EXCEPT !.Participants = [id \in {"p1"} |-> Ptr(ZeroParticipant)]]}

BridgeEvents ==
    { [BaseEvent EXCEPT !.Description = Ptr(Text(d))] : d \in Descriptions }
    \cup { [BaseEvent EXCEPT !.Duration = Ptr(ShapeText(sh))] : sh \in Shapes }
    \cup { [BaseEvent EXCEPT !.Start = start, !.ShowWithoutTime = allDay] :
             start \in {Nil} \cup { Ptr(t) : t \in StartSamples },
             allDay \in {Nil, Ptr(FALSE), Ptr(TRUE)} }
    \cup { [BaseEvent EXCEPT !.Categories = c] : c \in CategorySets }
    \cup OtherEvents

NoComponent == [kind |-> "none"]

BrInit ==
    /\ jsevent \in { Ptr(e) : e \in BridgeEvents }
    /\ bpc = "built"
    /\ exported = NoComponent
    /\ back = Nil
    /\ berr = FALSE

BrIdle ==
    /\ jsevent = Nil
    /\ bpc = "idle"
    /\ exported = NoComponent
    /\ back = Nil
    /\ berr = FALSE

\* data, err := c.Format(jsevent)
Format ==
    /\ bpc = "built"
    /\ \E out \in convertJSCalEventToICal(jsevent, Clock) : exported' = out
    /\ bpc' = "exported"
    /\ UNCHANGED <<jsevent, back, berr>>
    /\ UNCHANGED notBr

\* back, err := c.Parse(data), for the data Format returned
Parse ==
    /\ bpc = "exported"
    /\ exported.kind = "vevent"
    /\ LET r == convertICalEventToJSCal(exported.Properties)
       IN  back' = r.event /\ berr' = r.err
    /\ bpc' = "imported"
    /\ UNCHANGED <<jsevent, exported>>
    /\ UNCHANGED notBr

BrNext == Format \/ Parse

(***************************************************************************)
(* Bulk import: Converter.ParseAll on a calendar of several components.    *)
(***************************************************************************)
Component(uid, summary) ==
    [n \in {"UID", "SUMMARY"} |->
       IF n = "UID" THEN Property(Text(uid), NoParams) ELSE Property(Text(summary), NoParams)]

ComponentSamples ==
    {Component(<<"u", "1">>, TextA),
     MapSet(MapSet(Component(<<"u", "2">>, <<"b">>), "DTSTART",
                   Property(ICalTime(1, Ptr(50400), TRUE), NoParams)),
            "DTEND", Property(ICalTime(1, Ptr(54000), TRUE), NoParams)),
     MapSet(Component(<<"u", "3">>, TextA), "DTSTART", Property(MalformedTime, NoParams)),
     [n \in {"SUMMARY"} |-> Property(Text(TextA), NoParams)],
     Component(<<>>, <<"b">>)}

Calendars == SeqsUpTo(ComponentSamples, MaxComponents)

\* what ParseAll returns: the events, or nil and an error
ParseAllResult(events, err) == [events |-> events, err |-> err]
NotParsed == [events |-> <<>>, err |-> FALSE, none |-> TRUE]

\* the loop of ParseAll over cal.Events(), from component i on
RECURSIVE ParseAllFrom(_, _, _)
ParseAllFrom(components, i, events) ==
    IF i > Len(components) THEN ParseAllResult(events, FALSE)
    ELSE LET r == convertICalEventToJSCal(components[i])
         IN  IF r.err THEN ParseAllResult(<<>>, TRUE)
             ELSE ParseAllFrom(components, i + 1, Append(events, r.event))

ParseAll(components, bad) ==
    IF bad THEN ParseAllResult(<<>>, TRUE)
    ELSE ParseAllFrom(components, 1, <<>>)

PaInit ==
    /\ cal \in Calendars
    /\ calBad \in BOOLEAN
    /\ ppc = "input"
    /\ pres = NotParsed

PaIdle ==
    /\ cal = <<>>
    /\ calBad = FALSE
    /\ ppc = "idle"
    /\ pres = NotParsed

\* events, err := c.ParseAll(data)
CallParseAll ==
    /\ ppc = "input"
    /\ pres' = ParseAll(cal, calBad)
    /\ ppc' = "parsed"
    /\ UNCHANGED <<cal, calBad>>
    /\ UNCHANGED notPa

PaNext == CallParseAll

(***************************************************************************)
(* The import of one component: convertICalEventToJSCal on a component     *)
(* with or without UID, and with a recurrence literal whose tokens decode  *)
(* or do not.                                                              *)
(***************************************************************************)
\* the parts KEY=value of the literals
KeyFreq == <<"F", "R", "E", "Q">>
KeyCount == <<"C", "O", "U", "N", "T">>
KeyInterval == <<"I", "N", "T", "E", "R", "V", "A", "L">>
KeyUntil == <<"U", "N", "T", "I", "L">>
KeyByDay == <<"B", "Y", "D", "A", "Y">>

\* for each key, no part, parts that decode and parts that do not
PartSamples(key) ==
    CASE key = KeyFreq -> {<<>>, <<<<KeyFreq, <<"W", "E", "E", "K", "L", "Y">>>>>>}
      [] key = KeyCount ->
           {<<>>, <<<<KeyCount, <<"3">>>>>>, <<<<KeyCount, <<"x">>>>>>}
      [] key = KeyInterval ->
           {<<>>, <<<<<<"i", "n", "t", "e", "r", "v", "a", "l", " ">>, <<" ", "2">>>>>>,
            <<<<KeyInterval, <<"a", "b", "c">>>>>>}
      [] key = KeyUntil ->
           {<<>>, <<<<KeyUntil, ICalTime(2, Ptr(0), TRUE)>>>>, <<<<KeyUntil, MalformedTime>>>>}
      [] key = KeyByDay ->
           {<<>>, <<<<KeyByDay, <<"M", "O", ",", "-", "1", "F", "R">>>>>>,
            <<<<KeyByDay, <<"x", "x">>>>>>, <<<<KeyByDay, <<"M", "O", ",", "x", "x">>>>>>,
            <<<<KeyByDay>>>>}

RRuleSamples ==
    { f \o c \o i \o u \o d :
        f \in PartSamples(KeyFreq), c \in PartSamples(KeyCount),
        i \in PartSamples(KeyInterval), u \in PartSamples(KeyUntil),
        d \in PartSamples(KeyByDay) }

\* components: with a UID, with an empty one and with none, without and
\* with a recurrence literal
ImportSamples ==
    LET plain == {Component(<<"u", "1">>, TextA), Component(<<>>, TextA),
                  [n \in {"SUMMARY"} |-> Property(Text(TextA), NoParams)]}
    IN  plain \cup { MapSet(c, "RRULE", Property(r, NoParams)) :
                       c \in plain, r \in RRuleSamples }

NotImported == [err |-> FALSE, event |-> Nil, none |-> TRUE]

ImpInit ==
    /\ icomp \in ImportSamples
    /\ ipc = "input"
    /\ ires = NotImported

ImpIdle ==
    /\ icomp = <<>>
    /\ ipc = "idle"
    /\ ires = NotImported

\* event, err := convertICalEventToJSCal(icomp)
Import ==
    /\ ipc = "input"
    /\ ires' = convertICalEventToJSCal(icomp)
    /\ ipc' = "imported"
    /\ UNCHANGED icomp
    /\ UNCHANGED notImp

ImpNext == Import

(***************************************************************************)
(* Specifications: one for each machine, the others idle.                  *)
(***************************************************************************)
\* the clock when a run begins, and the machines that read it at rest
ClockInit == lastNow = SomeTime.sec
ObjectsIdle == ValIdle /\ TaskIdle /\ GroupIdle
CodecsIdle == NDayIdle /\ ImpIdle

InitDuration == DurInit /\ BrIdle /\ PaIdle /\ LdtIdle /\ ObjectsIdle /\ CodecsIdle /\ ClockInit

SpecDuration == InitDuration /\ [][DurNext]_vars

InitValidate ==
    /\ ValInit /\ DurIdle /\ BrIdle /\ PaIdle /\ LdtIdle /\ TaskIdle /\ GroupIdle
    /\ CodecsIdle /\ ClockInit

SpecValidate == InitValidate /\ [][ValNext]_vars

InitBridge == BrInit /\ DurIdle /\ PaIdle /\ LdtIdle /\ ObjectsIdle /\ CodecsIdle /\ ClockInit

SpecBridge == InitBridge /\ [][BrNext]_vars

InitParseAll == PaInit /\ DurIdle /\ BrIdle /\ LdtIdle /\ ObjectsIdle /\ CodecsIdle /\ ClockInit

SpecParseAll == InitParseAll /\ [][PaNext]_vars

InitLocalDateTime == LdtInit /\ DurIdle /\ BrIdle /\ PaIdle /\ ObjectsIdle /\ CodecsIdle /\ ClockInit

SpecLocalDateTime == InitLocalDateTime /\ [][LdtNext]_vars

InitNDay ==
    NDayInit /\ ImpIdle /\ DurIdle /\ BrIdle /\ PaIdle /\ LdtIdle /\ ObjectsIdle /\ ClockInit

SpecNDay == InitNDay /\ [][NDayNext]_vars

InitImport ==
    ImpInit /\ NDayIdle /\ DurIdle /\ BrIdle /\ PaIdle /\ LdtIdle /\ ObjectsIdle /\ ClockInit

SpecImport == InitImport /\ [][ImpNext]_vars

\* one object, an Event, a Task or a Group, is built, edited and validated
InitObjects ==
    /\ DurIdle /\ BrIdle /\ PaIdle /\ LdtIdle /\ CodecsIdle /\ ClockInit
    /\ \/ ValInit /\ TaskIdle /\ GroupIdle
       \/ ValIdle /\ TaskInit /\ GroupIdle
       \/ ValIdle /\ TaskIdle /\ GroupInit

ObjectsNext == ValNext \/ TaskNext \/ GroupNext

SpecObjects == InitObjects /\ [][ObjectsNext]_vars

\* a group is built by NewGroup, and entries are added and removed
InitGroupEntries ==
    /\ DurIdle /\ BrIdle /\ PaIdle /\ LdtIdle /\ CodecsIdle /\ ClockInit
    /\ ValIdle /\ TaskIdle
    /\ GroupInit /\ group # Nil

GroupEntriesNext == AddEntry \/ RemoveEntry

SpecGroupEntries == InitGroupEntries /\ [][GroupEntriesNext]_vars

(***************************************************************************)
(* Claims about the duration codec.                                        *)
(***************************************************************************)
RECURSIVE SumTicks(_, _)
SumTicks(units, comps) ==
    IF units = <<>> THEN 0
    ELSE (IF Head(units) \in DOMAIN comps
          THEN ValueTicks(comps[Head(units)], Head(units)) ELSE 0)
         + SumTicks(Tail(units), comps)

\* sign * (Y*365 days + M*30 days + W*7 days + D days + H hours + M minutes
\* + S seconds) of the components a literal was written from
ShapeValue(sh) ==
    LET sum == SumTicks(DateUnits \o TimeUnits, sh.comps)
    IN  IF sh.neg THEN -sum ELSE sum

DayOrFiner(sh) == DOMAIN sh.comps \subseteq {"D", "H", "Mi", "S"}

\* C7: for every literal x of D/H/M/S components (fractional or not, with or
\* without a leading minus), formatISO8601Duration(parse(x)) parses to the
\* same elapsed time as x.
C7_FormatParseRoundTrip ==
    (dpc = "reparsed" /\ shape # NoShape /\ DayOrFiner(shape)) => dre = dval

C9_MalformedIsError ==
    (dpc = "parsed" /\ ~durationPattern(lit)) => derr

(***************************************************************************)
(* Claims about the validator.                                             *)
(***************************************************************************)
Range(q) == { q[i] : i \in DOMAIN q }

\* the event's own fields that break a rule
OwnViolatedFields(e) ==
    {f \in {"@type"} : e.Type # "Event"}
    \cup {f \in {"uid"} : StrLen(e.UID) = 0 \/ StrLen(e.UID) > 255}
    \cup {f \in {"start"} : e.Start = Nil}
    \cup {f \in {"title"} : e.Title # Nil /\ StrLen(e.Title[1]) > 1024}
    \cup {f \in {"description"} : e.Description # Nil /\ StrLen(e.Description[1]) > 32768}
    \cup {f \in {"duration"} : e.Duration # Nil /\ ~durationPattern(e.Duration[1])}
    \cup {f \in {"timeZone"} : e.TimeZone # Nil /\ ~timezonePattern(e.TimeZone[1])}
    \cup {f \in {"color"} : e.Color # Nil /\ ~colorPattern(e.Color[1])}
    \cup {f \in {"status"} :
            e.Status # Nil /\ e.Status[1] \notin {"confirmed", "tentative", "cancelled"}}
    \cup {f \in {"freeBusyStatus"} :
            e.FreeBusyStatus # Nil
            /\ e.FreeBusyStatus[1] \notin {"free", "busy", "tentative", "unavailable"}}
    \cup {f \in {"privacy"} :
            e.Privacy # Nil /\ e.Privacy[1] \notin {"public", "private", "secret"}}
    \cup {f \in {"priority"} : e.Priority # Nil /\ e.Priority[1] \notin 0..9}
    \cup {f \in {"method"} : e.Method # Nil /\ e.Method[1] \notin Methods}
    \cup {f \in {"descriptionContentType"} :
            e.DescriptionContentType # Nil
            /\ e.DescriptionContentType[1] \notin {"text/plain", "text/html"}}
    \cup {f \in {"sequence"} : e.Sequence # Nil /\ e.Sequence[1] < 0}

\* the violations of the nested entities of an event, each as its own
\* validator reports it
NestedViolations(e) ==
    LET All(lists) == UNION { Range(errs) : errs \in lists }
    IN  UNION ({ All(validateParticipant(id, e.Participants[id])) : id \in DOMAIN e.Participants }
               \cup { All(validateLocation(id, e.Locations[id])) : id \in DOMAIN e.Locations }
               \cup { All(validateVirtualLocation(id, e.VirtualLocations[id])) :
                        id \in DOMAIN e.VirtualLocations }
               \cup { All(validateAlert(id, e.Alerts[id])) : id \in DOMAIN e.Alerts }
               \cup { All(validateLink(id, e.Links[id])) : id \in DOMAIN e.Links }
               \cup { Range(validateRecurrenceRule(
                                "recurrenceRules[" \o ToString(i - 1) \o "]",
                                Ptr(e.RecurrenceRules[i]))) :
                        i \in DOMAIN e.RecurrenceRules })

\* C1: Event.Validate on a non-nil event reports every violation in one
\* call: the returned list has an entry for every field of the event that
\* breaks a rule and every violation of every participant, location, virtual
\* location, alert, link and recurrence rule, and nothing else; and the
\* value returned is nil exactly when that list is empty.
C1_ValidateAggregates ==
    (vpc = "validated" /\ event # Nil) =>
        LET e == event[1]
            got == Range(vres.errors)
        IN  /\ \A f \in OwnViolatedFields(e) : \E err \in got : err.Field = f
            /\ NestedViolations(e) \subseteq got
            /\ \A err \in got : err.Field \in OwnViolatedFields(e) \/ err \in NestedViolations(e)
            /\ (vres.kind = "nil") <=> (OwnViolatedFields(e) = {} /\ NestedViolations(e) = {})
            /\ (vres.kind = "nil") <=> (vres.errors = <<>>)

\* the example event was validated, after a link without href was added to
\* it, and all four violations were returned by the one call
C1_Witness ==
    /\ vpc = "validated"
    /\ event # Nil
    /\ StrLen(event[1].UID) = 0
    /\ event[1].Priority = Ptr(10)
    /\ DOMAIN event[1].Participants = {"p1"}
    /\ DOMAIN event[1].Links = {"k1"}
    /\ vres.kind = "ValidationErrors"
    /\ { err.Field : err \in Range(vres.errors) }
         = {"uid", "priority", "participants[p1].roles[invalid-role]", "links[k1].href"}

\* C10: a recurrence rule with both count and until set fails validation,
\* whatever its other fields are: validateRecurrenceRule reports "cannot
\* have both count and until" for it, and so does Event.Validate for such a
\* rule in recurrenceRules, which then does not return nil.
C10_CountAndUntilRejected ==
    (vpc = "validated" /\ event # Nil) =>
        \A i \in DOMAIN event[1].RecurrenceRules :
            LET rule == event[1].RecurrenceRules[i]
                path == "recurrenceRules[" \o ToString(i - 1) \o "]"
                both == ValidationError(path, "cannot have both count and until")
            IN  (rule.Count # Nil /\ rule.Until # Nil) =>
                    /\ both \in Range(validateRecurrenceRule(path, Ptr(rule)))
                    /\ both \in Range(vres.errors)
                    /\ vres.kind = "ValidationErrors"

\* a rule invalid in every other field, with count 0 and an until, was
\* validated in an event and the violation is in the list
C10_Witness ==
    /\ vpc = "validated"
    /\ event # Nil
    /\ Len(event[1].RecurrenceRules) = 1
    /\ event[1].RecurrenceRules[1].Frequency = "fortnightly"
    /\ event[1].RecurrenceRules[1].Count = Ptr(0)
    /\ event[1].RecurrenceRules[1].Until # Nil
    /\ ValidationError("recurrenceRules[0]", "cannot have both count and until")
         \in Range(vres.errors)

(***************************************************************************)
(* Claims about the bridge.                                                *)
(***************************************************************************)
\* C2: when ParseAll is given a calendar that the library parses and of
\* whose components some cannot be converted, it still returns the events
\* of the components that can be.
C2_PerItemIsolation ==
    (ppc = "parsed" /\ ~calBad) =>
        LET Converts(c) == ~convertICalEventToJSCal(c).err
            others == SelectSeq(cal, Converts)
        IN  pres.events = [i \in DOMAIN others |-> convertICalEventToJSCal(others[i]).event]

\* C3: an event whose duration matches the validator's duration grammar
\* comes back from export and import with a duration that denotes the same
\* elapsed time.
C3_RoundTripDuration ==
    (bpc = "imported" /\ jsevent[1].Duration # Nil
       /\ durationPattern(jsevent[1].Duration[1])) =>
        /\ ~berr
        /\ back[1].Duration # Nil
        /\ parseISO8601Duration(back[1].Duration[1])
             = parseISO8601Duration(jsevent[1].Duration[1])

\* C4: an event with a non-empty category set comes back from export and
\* import with the same set of categories, whatever the category strings.
C4_RoundTripCategories ==
    (bpc = "imported" /\ DOMAIN jsevent[1].Categories # {}) =>
        /\ ~berr
        /\ DOMAIN back[1].Categories = DOMAIN jsevent[1].Categories

\* C5: an event comes back from export and import with the same UID, title
\* and description, whatever characters the description holds.
C5_RoundTripText ==
    bpc = "imported" =>
        /\ ~berr
        /\ back[1].UID = jsevent[1].UID
        /\ back[1].Title = jsevent[1].Title
        /\ back[1].Description = jsevent[1].Description

\* C6: a timed event with a start comes back from export and import with a
\* start that shows the same wall clock, to the second, whatever the zone
\* offset of the time the original start was built from.
C6_RoundTripStart ==
    (bpc = "imported" /\ jsevent[1].Start # Nil
       /\ ~(jsevent[1].ShowWithoutTime # Nil /\ jsevent[1].ShowWithoutTime[1])) =>
        /\ ~berr
        /\ back[1].Start # Nil
        /\ Wall(back[1].Start[1]) = Wall(jsevent[1].Start[1])

(***************************************************************************)
(* Claims about the objects: Event, Task and Group.                        *)
(***************************************************************************)
\* what the object model requires of a recurrence rule
RuleWellFormed(r) ==
    /\ ~(r.Count # Nil /\ r.Until # Nil)
    /\ r.Interval # Nil => r.Interval[1] > 0
    /\ r.Count # Nil => r.Count[1] > 0
    /\ r.FirstDayOfWeek # Nil => r.FirstDayOfWeek[1] \in 0..6
    /\ \A i \in DOMAIN r.ByDay : r.ByDay[i].Day \in {"mo", "tu", "we", "th", "fr", "sa", "su"}

\* C11: when Event.Validate or Task.Validate returns nil, every rule of the
\* object, in recurrenceRules and in excludedRecurrenceRules, is well formed.
C11_RulesWellFormedAfterValidate ==
    /\ (vpc = "validated" /\ event # Nil /\ vres.kind = "nil") =>
          \A r \in Range(event[1].RecurrenceRules) \cup Range(event[1].ExcludedRecurrenceRules) :
             RuleWellFormed(r)
    /\ (tpc = "validated" /\ task # Nil /\ tres.kind = "nil") =>
          \A r \in Range(task[1].RecurrenceRules) \cup Range(task[1].ExcludedRecurrenceRules) :
             RuleWellFormed(r)

\* the 1-based positions of the entries of g that hold an object, of those
\* that have the UID of g, and of those that repeat the UID of an earlier one
Present(g) == { i \in DOMAIN g.Entries : g.Entries[i] # Nil }
SelfEntries(g) == { i \in Present(g) : GetUID(g.Entries[i]) = g.UID }
RepeatedEntries(g) ==
    { i \in Present(g) :
        \E j \in Present(g) : j < i /\ GetUID(g.Entries[j]) = GetUID(g.Entries[i]) }

\* C12: when Group.Validate returns nil no entry has the UID of the group
\* and no two entries share a UID; a group with an entry of its own UID
\* gets the violation "group cannot contain itself", and a group with two
\* entries of one UID gets the violation "duplicate UID '<uid>' in group
\* entries".
C12_GroupEntryInvariants ==
    (gpc = "validated" /\ group # Nil) =>
        LET g == group[1]
        IN  /\ gres.kind = "nil" => SelfEntries(g) = {} /\ RepeatedEntries(g) = {}
            /\ SelfEntries(g) # {} =>
                  /\ gres.kind = "ValidationErrors"
                  /\ \E err \in Range(gres.errors) : err.Message = "group cannot contain itself"
            /\ \A i \in RepeatedEntries(g) :
                  /\ gres.kind = "ValidationErrors"
                  /\ \E err \in Range(gres.errors) :
                        err.Message = "duplicate UID '" \o Sprint(GetUID(g.Entries[i]))
                                      \o "' in group entries"

\* what Touch does to an object o that becomes p: the updated timestamp is
\* the reading of the clock and the sequence is one more (1 when absent)
Touched(o, p) ==
    /\ p.Updated = Ptr(Time(lastNow', 0, 0))
    /\ p.Sequence = IF o.Sequence = Nil THEN Ptr(1) ELSE Ptr(o.Sequence[1] + 1)

\* C17: every step of a mutating helper of Event, Task or Group that
\* changes the receiver also sets the updated timestamp and adds one to
\* the sequence.
C17_MutationTouches ==
    [][ /\ (/\ \/ AddParticipant \/ AddLocation \/ AddVirtualLocation \/ AddAlert
               \/ AddCategory \/ AddKeyword \/ AddLink \/ SetRecurrence
            /\ event' # event)
           => Touched(event[1], event'[1])
        /\ (/\ \/ TaskAddParticipant \/ TaskAddLink \/ TaskAddCategory
               \/ TaskSetRecurrence \/ SetProgress
            /\ task' # task)
           => Touched(task[1], task'[1])
        /\ (/\ \/ AddEntry \/ RemoveEntry \/ GroupAddKeyword \/ GroupAddCategory
               \/ GroupAddLink
            /\ group' # group)
           => Touched(group[1], group'[1]) ]_vars

\* the sequence after a touch of an object whose sequence was seq
Bumped(seq) == IF seq = Nil THEN Ptr(1) ELSE Ptr(seq[1] + 1)

\* C18: NewEvent, NewTask and NewGroup build objects of sequence 0; every
\* Touch, called directly or by SetProgress or by an AddEntry or RemoveEntry
\* that succeeds, makes the sequence one more, and 1 when it was absent;
\* no other helper changes the sequence.  So the sequence counts the
\* touches and never decreases.
C18_SequenceCountsTouches ==
    /\ NewEvent(Str(TextA, 0), Str(TextA, 0), SomeTime)[1].Sequence = Ptr(0)
    /\ NewTask(Str(TextA, 0), Str(TextA, 0), SomeTime)[1].Sequence = Ptr(0)
    /\ NewGroup(Str(TextG, 0), Str(TextA, 0), SomeTime)[1].Sequence = Ptr(0)
    /\ [][ /\ EventTouch => event'[1].Sequence = Bumped(event[1].Sequence)
           /\ (TaskTouch \/ SetProgress) => task'[1].Sequence = Bumped(task[1].Sequence)
           /\ (GroupTouch \/ ((AddEntry \/ RemoveEntry) /\ gres'.kind = "nil"))
                 => group'[1].Sequence = Bumped(group[1].Sequence)
           /\ (\/ AddParticipant \/ AddLocation \/ AddVirtualLocation \/ AddAlert
               \/ AddCategory \/ AddKeyword \/ AddLink \/ SetRecurrence \/ CallValidate)
                 => event' = Nil \/ event'[1].Sequence = event[1].Sequence
           /\ (\/ TaskAddParticipant \/ TaskAddLink \/ TaskAddCategory \/ TaskSetRecurrence
               \/ CallTaskValidate)
                 => task' = Nil \/ task'[1].Sequence = task[1].Sequence
           /\ (\/ GroupAddKeyword \/ GroupAddCategory \/ GroupAddLink \/ CallGroupValidate
               \/ ((AddEntry \/ RemoveEntry) /\ gres'.kind # "nil"))
                 => group' = Nil \/ group'[1].Sequence = group[1].Sequence ]_vars

\* a group touched twice, by an AddEntry and the RemoveEntry of that entry,
\* or touched once after its sequence was made absent
C18_Witness ==
    /\ gpc = "built" /\ group # Nil /\ gedits = 2
    /\ group[1].Entries = <<>>
    /\ group[1].Sequence = Ptr(2)

\* C19: for a task with start and due, Task.Validate reports "due date
\* cannot be before start date" on due exactly when due is before start in
\* the order of LocalDateTime, that of the wall clocks.
C19_DueBeforeStartByWallClock ==
    (tpc = "validated" /\ task # Nil /\ task[1].Start # Nil /\ task[1].Due # Nil) =>
        (ValidationError("due", "due date cannot be before start date") \in Range(tres.errors))
            <=> LdtBefore(task[1].Due, task[1].Start)

\* the field paths of the violations in a result of Validate
FieldsOf(res) == { err.Field : err \in Range(res.errors) }

\* C20: a violation carries the full path of its offender: an unknown role
\* is at participants[<id>].roles[<role>], a link without href in a
\* location is at locations[<locId>].links[<linkId>].href, and a violation
\* of an entry of a group is at entries[<i>].<path>.
C20_FullFieldPaths ==
    /\ (vpc = "validated" /\ event # Nil) =>
          /\ \A id \in DOMAIN event[1].Participants :
                event[1].Participants[id] # Nil =>
                  \A role \in DOMAIN event[1].Participants[id][1].Roles :
                     role \notin Roles =>
                       ("participants[" \o id \o "].roles[" \o role \o "]") \in FieldsOf(vres)
          /\ \A locId \in DOMAIN event[1].Locations :
                event[1].Locations[locId] # Nil =>
                  \A linkId \in DOMAIN event[1].Locations[locId][1].Links :
                     LET link == event[1].Locations[locId][1].Links[linkId]
                     IN  (link # Nil /\ link[1].Href = <<>>) =>
                           ("locations[" \o locId \o "].links[" \o linkId \o "].href")
                               \in FieldsOf(vres)
    /\ (gpc = "validated" /\ group # Nil /\ gres.kind # "panic") =>
          \A i \in Present(group[1]) :
             \A res \in EntryValidate(group[1].Entries[i]) :
                \A path \in FieldsOf(res) :
                   ("entries[" \o ToString(i - 1) \o "]." \o path) \in FieldsOf(gres)

\* C21: Validate of an Event, a Task or a Group leaves the object as it
\* was, so that its JSON encoding is the same before and after the call,
\* also for a Group whose entry list is nil.
C21_ValidateIsPure ==
    [][ /\ CallValidate => event' = event
        /\ CallTaskValidate => task' = task
        /\ CallGroupValidate => GroupJSON(group') = GroupJSON(group) ]_vars

\* C22: Validate of a Group with a nil entry at index i returns, without a
\* runtime fault, a list of violations holding "entry cannot be nil" at
\* entries[i].
C22_NilEntryIsReported ==
    (gpc = "validated" /\ group # Nil) =>
        \A i \in NilAt(group[1]) :
           /\ gres.kind # "panic"
           /\ ValidationError("entries[" \o ToString(i - 1) \o "]", "entry cannot be nil")
                  \in Range(gres.errors)

\* C26: from NewGroup on, under AddEntry and RemoveEntry the entries are
\* events and tasks of pairwise distinct UIDs, no call faults, and a call
\* that returns an error leaves the entries, the sequence and the updated
\* timestamp as they were.
C26_EntriesStayUnique ==
    /\ [](group # Nil =>
            /\ NilAt(group[1]) = {}
            /\ RepeatedEntries(group[1]) = {}
            /\ \A i \in DOMAIN group[1].Entries :
                  GetType(group[1].Entries[i]) \in {"Event", "Task"})
    /\ [][ (AddEntry \/ RemoveEntry) =>
              /\ gres'.kind # "panic"
              /\ gres'.kind = "error" =>
                    /\ group'[1].Entries = group[1].Entries
                    /\ group'[1].Sequence = group[1].Sequence
                    /\ group'[1].Updated = group[1].Updated ]_vars

\* an entry was added, and a second call was refused
C26_Witness ==
    /\ group # Nil
    /\ Len(group[1].Entries) = 1
    /\ gedits = 2
    /\ gres.kind = "error"

\* C29: from NewGroup on, after any AddEntry calls no entry has the UID of
\* the group.
C29_AddEntryKeepsSelfOut ==
    group # Nil => SelfEntries(group[1]) = {}

(***************************************************************************)
(* Claims about LocalDateTime.                                             *)
(***************************************************************************)
\* s is YYYY-MM-DDTHH:MM:SS[.fraction] for the wall clock w, in seconds
\* since 0001-01-01T00:00:00, and the nanoseconds nsec, and nothing more
ShowsWallClock(s, w, nsec) ==
    LET d == CivilDate(FloorDiv(w, SecondsPerDay))
        secs == w - FloorDiv(w, SecondsPerDay) * SecondsPerDay
        frac == SubSeq(s, 21, Len(s))
        num(i, j) == DigitsValue(SubSeq(s, i, j))
    IN  /\ Len(s) >= 19
        /\ \A i \in 1..19 : i \notin {5, 8, 11, 14, 17} => s[i] \in Digits
        /\ s[5] = "-" /\ s[8] = "-" /\ s[11] = "T" /\ s[14] = ":" /\ s[17] = ":"
        /\ num(1, 4) = d.year /\ num(6, 7) = d.month /\ num(9, 10) = d.day
        /\ num(12, 13) * 3600 + num(15, 16) * 60 + num(18, 19) = secs
        /\ num(15, 16) < 60 /\ num(18, 19) < 60
        /\ IF nsec = 0 THEN Len(s) = 19
           ELSE /\ Len(s) > 20 /\ Len(s) <= 29
                /\ s[20] = "."
                /\ \A i \in 1..Len(frac) : frac[i] \in Digits
                /\ frac[Len(frac)] # "0"
                /\ DigitsValue(frac) * Pow10(9 - Len(frac)) = nsec

\* C13: String() of a LocalDateTime is the wall clock of the time it was
\* built from, YYYY-MM-DDTHH:MM:SS[.fraction], with no zone designator after
\* it, whatever the offset of that time.
C13_StringHasNoZone ==
    (lpc = "printed" /\ ~lres.panic) => ShowsWallClock(lres.text, Wall(la[1]), la[1].nsec)

C13_Witness ==
    /\ lpc = "printed" /\ ~lres.panic
    /\ la[1].off < 0 /\ la[1].nsec # 0
    /\ Wall(la[1]) < 0

\* C14: ParseLocalDateTime(t.String()) succeeds and gives a value Equal to
\* t: the same year, month, day, hour, minute, second and nanosecond,
\* whatever the offset of the time t was built from.
C14_ParseStringRoundTrip ==
    lpc = "parsed" =>
        /\ ~lres.err
        /\ lres.value # Nil
        /\ LdtEqual(lres.value, la)
        /\ Wall(lres.value[1]) = Wall(la[1])
        /\ lres.value[1].nsec = la[1].nsec

C14_Witness ==
    /\ lpc = "parsed"
    /\ la[1].off # 0 /\ la[1].nsec = 1
    /\ lres.value # Nil /\ lres.value[1].off = 0

\* C15: for non-nil a and b, Equal holds exactly when the wall-clock fields
\* are the same, Before and After order by the wall-clock fields alone, and
\* exactly one of Before, Equal and After holds; the offsets play no part.
C15_ComparisonIsZoneNeutral ==
    (lpc = "compared" /\ la # Nil /\ lb # Nil) =>
        LET a == la[1]
            b == lb[1]
            less(x, y) == Wall(x) < Wall(y) \/ (Wall(x) = Wall(y) /\ x.nsec < y.nsec)
        IN  /\ lres.equal <=> (Wall(a) = Wall(b) /\ a.nsec = b.nsec)
            /\ lres.before <=> less(a, b)
            /\ lres.after <=> less(b, a)
            /\ Cardinality({p \in {"before", "equal", "after"} : lres[p]}) = 1

\* equal wall clocks at different instants, and an order of the wall clocks
\* that is the reverse of the order of the instants
C15_Witness ==
    /\ lpc = "compared" /\ la # Nil /\ lb # Nil
    /\ la[1].off # lb[1].off
    /\ \/ lres.equal /\ la[1].sec # lb[1].sec
       \/ lres.before /\ lb[1].sec < la[1].sec

\* C16: a nil LocalDateTime, as receiver or as argument, gives Time(),
\* IsZero(), Equal, Before and After the results that a LocalDateTime of the
\* zero time gives in its place.
C16_NilBehavesAsZero ==
    lpc = "compared" =>
        LET zero == NewLocalDateTime(ZeroTime)
            a == IF la = Nil THEN zero ELSE la
            b == IF lb = Nil THEN zero ELSE lb
        IN  /\ lres.time = LdtTime(a)
            /\ lres.isZero = LdtIsZero(a)
            /\ lres.equal = LdtEqual(a, b)
            /\ lres.before = LdtBefore(a, b)
            /\ lres.after = LdtAfter(a, b)

\* C28: for LocalDateTime values a and b, a.Equal(b) implies that a.Sub(b)
\* is zero and a.Before(b) that it is negative, and a.Sub(b) is the same for
\* all values of the same wall-clock fields, whatever their offsets.
C28_SubAgreesWithEqual ==
    (lpc = "compared" /\ la # Nil /\ lb # Nil) =>
        /\ lres.equal => lres.sub[1] = [sec |-> 0, nsec |-> 0]
        /\ lres.before => (lres.sub[1].sec < 0 \/ lres.sub[1].nsec < 0)
        /\ \A a \in TimeSamples, b \in TimeSamples :
              (Fields(a) = Fields(la[1]) /\ Fields(b) = Fields(lb[1])) =>
                 LdtSub(a, b) = lres.sub[1]

(***************************************************************************)
(* Claims about the by-day tokens.                                         *)
(***************************************************************************)
\* the prefix and the day code of a token, and the tokens of the form
\* [+-N]<code>: no prefix, or digits after at most one sign
PrefixOf(t) == SubSeq(t, 1, Len(t) - 2)
CodeOf(t) == SubSeq(t, Len(t) - 1, Len(t))
Unsigned(prefix) ==
    IF prefix # <<>> /\ prefix[1] \in {"+", "-"} THEN Tail(prefix) ELSE prefix
IsNDayToken(t) ==
    /\ Len(t) >= 2
    /\ LowerText(CodeOf(t)) \in DayCodes
    /\ PrefixOf(t) # <<>> =>
          /\ Unsigned(PrefixOf(t)) # <<>>
          /\ \A i \in DOMAIN Unsigned(PrefixOf(t)) : Unsigned(PrefixOf(t))[i] \in Digits
NthOf(t) ==
    IF PrefixOf(t) = <<>> THEN Nil
    ELSE IF PrefixOf(t)[1] = "-" THEN Ptr(0 - DigitsValue(Unsigned(PrefixOf(t))))
    ELSE Ptr(DigitsValue(Unsigned(PrefixOf(t))))

\* C25: ParseNDay decodes exactly the tokens [+-N]<code>, the code in any
\* letter case: it returns the lower-cased day and the nth occurrence N,
\* absent without a prefix, and an error for every other token, the
\* invalid-day error for two characters that are no code.
C25_ParseNDayDecodesTokens ==
    npc = "parsed" =>
        IF IsNDayToken(tok)
        THEN /\ nres.err = ""
             /\ nres.nday # Nil
             /\ nres.nday[1].Day = LowerText(CodeOf(tok))[1] \o LowerText(CodeOf(tok))[2]
             /\ nres.nday[1].NthOfPeriod = NthOf(tok)
        ELSE /\ nres.err # ""
             /\ nres.nday = Nil
             /\ Len(tok) = 2 => nres.err = "invalid day"

(***************************************************************************)
(* Claims about the import of a component.                                 *)
(***************************************************************************)
\* C23: a component without UID, or with an empty one, is imported as an
\* error and a nil Event, and every Event returned has the type "Event" and
\* a UID that is not empty.
C23_MissingUIDAborts ==
    ipc = "imported" =>
        /\ ("UID" \notin DOMAIN icomp \/ StrLen(icomp["UID"].Value) = 0) =>
              (ires.err /\ ires.event = Nil)
        /\ ires.event # Nil =>
              (~ires.err /\ ires.event[1].Type = "Event" /\ StrLen(ires.event[1].UID) > 0)

\* a component without UID and with other properties was imported, and was
\* refused
C23_Witness ==
    /\ ipc = "imported"
    /\ "UID" \notin DOMAIN icomp
    /\ {"SUMMARY", "RRULE"} \subseteq DOMAIN icomp
    /\ ires.err

\* the parts KEY=value of a recurrence literal whose value does not decode:
\* a COUNT or an INTERVAL that is no number, an UNTIL that is no date-time,
\* a BYDAY with a token that is no [+-N]<code>
IsNumber(value) == value # <<>> /\ \A i \in DOMAIN value : value[i] \in Digits
MalformedPart(kv) ==
    /\ Len(kv) = 2
    /\ LET key == UpperText(TrimSpace(kv[1]))
       IN  \/ key \in {KeyCount, KeyInterval} /\ ~IsNumber(TrimSpace(kv[2]))
           \/ key = KeyUntil /\ kv[2].malformed
           \/ key = KeyByDay /\ \E d \in Range(Split(TrimSpace(kv[2]), ",")) :
                                   ~IsNDayToken(TrimSpace(d))

\* C24: the import of a component whose recurrence literal holds a token
\* that does not decode fails: it returns an error and no Event.
C24_MalformedRRuleIsFatal ==
    (/\ ipc = "imported"
     /\ "RRULE" \in DOMAIN icomp
     /\ \E kv \in Range(icomp["RRULE"].Value) : MalformedPart(kv)) =>
        (ires.err /\ ires.event = Nil)

(***************************************************************************)
(* Claims about the export of an event.                                    *)
(***************************************************************************)
\* the location and the link of a component: its LOCATION and URL
\* properties, those it has
Selected(props) == [n \in DOMAIN props \cap {"LOCATION", "URL"} |-> props[n]]

\* the locations of an event that bear a name
Named(e) == { k \in DOMAIN e.Locations : e.Locations[k] # Nil /\ e.Locations[k][1].Name # Nil }

\* C27: the component exported for an event with named locations has a
\* location property, the one for an event with links a link property, and
\* every export of the same event selects the same location and the same
\* link.
C27_ExportIsDeterministic ==
    (bpc # "built" /\ jsevent # Nil /\ exported.kind = "vevent") =>
        /\ Named(jsevent[1]) # {} => "LOCATION" \in DOMAIN exported.Properties
        /\ DOMAIN jsevent[1].Links # {} => "URL" \in DOMAIN exported.Properties
        /\ \A again \in convertJSCalEventToICal(jsevent, Clock) :
              again.kind = "vevent" =>
                 Selected(again.Properties) = Selected(exported.Properties)


\* C30: the export of an event that passes its validation returns a
\* component and never faults, a nil value in the participants, the
\* locations or the links of the event included.
C30_ExportIsTotalOnValidEvents ==
    (bpc # "built" /\ jsevent # Nil /\ NoError \in Validate(jsevent)) =>
        exported.kind # "panic"

=============================================================================
